---------------------------- MODULE Spec2Model ----------------------------
(***************************************************************************)
(* A model of adder-dp: the atomic bit vector (vendor/atomic-bitvec) and   *)
(* the subset-sum engine run_algorithm (algorithm/src/lib.rs) built on it. *)
(*                                                                         *)
(* A 64-bit word is modelled as the set of its set bit positions           *)
(* (k \in w  iff  (w >> k) & 1 = 1), so that fetch_or is union, fetch_and  *)
(* is intersection, !m is the complement in 0..63 and count_ones is the    *)
(* cardinality.  A Vec<AtomicU64> is a sequence of such words; Rust's      *)
(* 0-based index k is position k + 1 of the sequence.                      *)
(***************************************************************************)
EXTENDS Integers, Sequences, FiniteSets, TLC

VARIABLES
    \* ---- run_algorithm (algorithm/src/lib.rs) ----
    entries,      \* the entries argument
    target,       \* the target argument (NoTarget until line 69 first reads it)
    sink,         \* whether a progress sink was passed (progress.is_some())
    pc,           \* where run_algorithm is
    zero_index,   \* line 21
    sum_size,     \* line 23
    dp_table,     \* line 26: one AtomicBitVec per entry
    i,            \* the outer loop's index, line 30
    todo,         \* indices j of the running par_iter not yet executed
    progress,     \* the AtomicUsize behind the sink
    current_i,    \* the backtracking loop's index, line 76
    current_sum,  \* line 74
    subset,       \* line 73
    ret,          \* what run_algorithm returned: "Some", "None", or "panic"
    \* ---- a stand-alone AtomicBitVec shared by threads ----
    data,         \* AtomicBitVec::data
    cap,          \* blocks reserved by Vec::with_capacity
    owner_op,     \* the last operation the owner (&mut self) performed
    thr,          \* per thread: the &self operation it performed, or idle
    fresh,        \* every bit was false when the threads were spawned
    \* ---- the tauri commands (adder-ui/src-tauri/src/main.rs) ----
    global,       \* GLOBAL: NoGlobal, or the Global of the latest run
    queue,        \* the answers sent on the latest run's channel, not received
    sender,       \* the latest run's Sender: "none", "held" or "dropped"
    last_poll,    \* what the latest check_algorithm since that run returned
    done_polls,   \* how many check_algorithm calls since that run returned Done
    sends,        \* how many answers the latest run's worker has sent
    runs,         \* how many runs have been started
    \* ---- an Iter over the stand-alone AtomicBitVec ----
    it,           \* the Iter: whether there is one, its idx and its back_idx
    taken,        \* how many values next and next_back have yielded so far
    last_yield,   \* what the latest next or next_back call returned
    \* ---- the front ends (cli/src/main.rs, adder-ui/src/app.rs) ----
    cli,          \* the terminal program: where it is and what it has read
    ui,           \* the GatheringInput component: its state and what it emitted
    \* ---- successive runs, each with its own worker (src-tauri/src/main.rs) ----
    jobs,         \* per run started: its worker, its counter and its channel
    glob,         \* GLOBAL: 0 for None, or the run whose Global it holds
    reply,        \* what the latest check_algorithm call returned
    \* ---- the root crate's AtomicBitVec (src/src/lib.rs), beside the vendored ----
    root,         \* its data, and its BitArrayIter: whether made, and its idx
    seqs          \* the bits each crate's iterator has yielded, whether it
                  \* has returned None, and which crate's call panicked

evars == <<entries, target, sink, pc, zero_index, sum_size, dp_table, i, todo,
           progress, current_i, current_sum, subset, ret>>
bvars == <<data, cap, owner_op, thr, fresh>>
cvars == <<global, queue, sender, last_poll, done_polls, sends, runs>>
ivars == <<it, taken, last_yield>>
fvars == <<cli, ui>>
rvars == <<jobs, glob, reply>>
xvars == <<root, seqs>>
vars == <<entries, target, sink, pc, zero_index, sum_size, dp_table, i, todo,
          progress, current_i, current_sum, subset, ret,
          data, cap, owner_op, thr, fresh,
          global, queue, sender, last_poll, done_polls, sends, runs,
          it, taken, last_yield, cli, ui, jobs, glob, reply, root, seqs>>

---------------------------------------------------------------------------
(* Bounds of the model *)

\* longest entry sequence
MaxN == 3
\* entries are drawn from -MaxAbs..MaxAbs
MaxAbs == 2
\* largest sum of the entries' magnitudes (most_negative + most_positive)
MaxSpan == 5
\* usize is modelled UsizeBits wide (TLC's integers are 32-bit)
UsizeBits == 16
\* threads sharing the stand-alone bit vector
NumThreads == 2
\* largest block count the owner asks for
MaxBlocks == 2
\* longest number_set the front end passes to the run_algorithm command
MaxUiN == 2
\* runs started through the run_algorithm command
MaxRuns == 2
\* longest line typed at the terminal, longest text of the target field
MaxText == 2
\* longest text of the numbers area
MaxArea == 3
\* blocks of the vector whose iterator advance_by is called on
MaxIterBlocks == 1
\* advance_by calls made on one iterator
MaxAdvances == 2

(* Program constants *)

\* the width of AtomicU64
WordBits == 64

---------------------------------------------------------------------------
(* vendor/atomic-bitvec *)

AllBits == 0 .. (WordBits - 1)

UsizeModulus == 2 ^ UsizeBits

\* usize::MAX
UsizeMax == UsizeModulus - 1

\* `x as usize` for an isize x: two's complement, so a negative x wraps
AsUsize(x) == x % UsizeModulus

\* a + b on usize overflows: a panic where overflow checks are on (debug
\* builds), a wrapped result where they are off (release builds)
AddOverflows(a, b) == a + b > UsizeMax

\* a variant that rounds down: v & !63
NextMul64Floor(v) == v - (v % WordBits)
\* (v + 64) & !63: clearing the low six bits of v + 64, the sum wrapped
next_mul_64(v) ==
    LET sum == (v + WordBits) % UsizeModulus
    IN  sum - (sum % WordBits)

block_cnt(d) == Len(d)

len(d) == block_cnt(d) * WordBits

\* mask = 1 << (idx & 63), block = idx >> 6
loc_and_mask(idx) ==
    [block |-> idx \div WordBits, mask |-> {idx % WordBits}]

\* a variant that compares the bit index with the block count
InBoundsByIndex(d, idx) == idx < Len(d)
\* &self.data[loc] panics unless loc < data.len()
InBounds(d, idx) == loc_and_mask(idx).block < Len(d)

\* a variant that stores the mask instead of or-ing it in
FetchOrStore(w, mask) == mask
\* what AtomicU64::fetch_or(mask) leaves in a word holding w
fetch_or(w, mask) == w \cup mask

\* a variant that stores the mask over the word
FetchAndStore(w, mask) == mask
\* what AtomicU64::fetch_and(mask) leaves in a word holding w
fetch_and(w, mask) == w \cap mask

\* w & mask
BitAnd(w, mask) == w \cap mask

\* a variant that forgets the negation
NotMaskIdentity(mask) == mask
\* !mask
NotMask(mask) == AllBits \ mask

\* the words after set(idx, value); the caller has checked InBounds
set(d, idx, value) ==
    LET lm == loc_and_mask(idx)
        dest == d[lm.block + 1]
    IN  [d EXCEPT ![lm.block + 1] =
            IF value THEN fetch_or(dest, lm.mask)
                     ELSE fetch_and(dest, NotMask(lm.mask))]

\* what set(idx, value) returns: prev & mask != 0
set_prev(d, idx) ==
    LET lm == loc_and_mask(idx)
    IN  BitAnd(d[lm.block + 1], lm.mask) # {}

\* dest.load(ordering) & mask != 0; the caller has checked InBounds
get(d, idx) ==
    LET lm == loc_and_mask(idx)
    IN  BitAnd(d[lm.block + 1], lm.mask) # {}

RECURSIVE count_ones(_)
count_ones(d) ==
    IF d = <<>> THEN 0
    ELSE Cardinality(Head(d)) + count_ones(Tail(d))

\* a variant that appends zeroed words whatever f makes
ResizeWithZeros(d, blocks, word) ==
    IF blocks <= Len(d) THEN SubSeq(d, 1, blocks)
    ELSE d \o [k \in 1 .. (blocks - Len(d)) |-> {}]
\* Vec::resize_with(blocks, f): truncate, or append words made by f
resize_with(d, blocks, word) ==
    IF blocks <= Len(d) THEN SubSeq(d, 1, blocks)
    ELSE d \o [k \in 1 .. (blocks - Len(d)) |-> word]

resize_blocks_with(d, new_blocks, word) == resize_with(d, new_blocks, word)

resize_bits_with(d, new_bits, word) ==
    resize_with(d, next_mul_64(new_bits) \div WordBits, word)

\* the reserve with_bit_capacity(bit_cap) passes to with_capacity
with_bit_capacity(bit_cap) == next_mul_64(bit_cap) \div WordBits

---------------------------------------------------------------------------
(* algorithm/src/lib.rs *)

total == Len(entries)

Entry(k) == entries[k + 1]

Row(k) == dp_table[k + 1]

RECURSIVE SumSeq(_)
SumSeq(s) == IF s = <<>> THEN 0 ELSE Head(s) + SumSeq(Tail(s))

\* i64::MIN, at the model's width
IsizeMin == -(2 ^ (UsizeBits - 1))

\* i64::MAX, at the model's width
IsizeMax == 2 ^ (UsizeBits - 1) - 1

\* the target before line 69 reads it: no i64
NoTarget == IsizeMin - 1

\* lines 9-13, unwrapped: the negated negative entries, as usize, summed
NegativeSum(es) ==
    SumSeq([k \in 1 .. Len(es) |-> IF es[k] < 0 THEN AsUsize(-es[k]) ELSE 0])

\* lines 15-19, unwrapped: the positive entries, as usize, summed
PositiveSum(es) ==
    SumSeq([k \in 1 .. Len(es) |-> IF es[k] > 0 THEN AsUsize(es[k]) ELSE 0])

\* lines 9-13
most_negative(es) == NegativeSum(es) % UsizeModulus

\* lines 15-19
most_positive(es) == PositiveSum(es) % UsizeModulus

\* lines 9-26: some negation or addition overflows
SetupOverflows(es) ==
    \/ \E k \in 1 .. Len(es) : es[k] = IsizeMin
    \/ NegativeSum(es) > UsizeMax
    \/ PositiveSum(es) > UsizeMax
    \/ most_negative(es) + 1 + most_positive(es) > UsizeMax
    \/ /\ Len(es) > 0
       /\ AddOverflows(most_negative(es) + 1 + most_positive(es), WordBits)

\* lines 102-112: total bit vectors of sum_size bits, every word zero
create_dp_table(size, n) ==
    [k \in 1 .. n |-> resize_bits_with(<<>>, size, {})]

\* AtomicBitVecExt::load
load(k, index) == get(Row(k), index)

\* a variant that flips the bit
SetTrueFlips(table, k, index) ==
    [table EXCEPT ![k + 1] = set(table[k + 1], index, ~get(table[k + 1], index))]
\* AtomicBitVecExt::set_true on row k
set_true(table, k, index) ==
    [table EXCEPT ![k + 1] = set(table[k + 1], index, TRUE)]

\* a variant that stores the rows left
ProgressValueRemaining(at) == total - 1 - at
\* line 33: progress.store(i, Ordering::SeqCst)
ProgressValue(at) == at

\* a variant that returns after the first task
ForEachReturnsEarly(remaining, j) == TRUE
\* lines 48 and 64: for_each returns once every task of the par_iter has
\* run; task j is the one running and remaining the tasks not yet run
ForEachReturns(remaining, j) == remaining = {j}

\* a variant in which the sweeps read the row they are writing
SourceRowCurrent(at) == at
\* lines 44 and 53: the sweeps of row at read dp_table[at - 1]
SourceRow(at) == at - 1

\* a variant that shifts the wrong way
ShiftIndexMirrored(j, current_entry) == j + current_entry
\* line 52: the index the shift sweep reads for bit j
ShiftIndex(j, current_entry) == j - current_entry

\* a variant that reads the row the progress counter names
ResultRowFromProgress(n) == progress
\* a variant that reads the first row
ResultRowFirst(n) == 0
\* line 69: the row the completion check reads, dp_table[total - 1]
ResultRow(n) == n - 1

\* lines 69 and 74: (target as isize + zero_index as isize) as usize
WantedIndex(t, zero) == AsUsize(t + zero)

\* a variant that includes every entry it visits
NecessaryAlways(at, sum) == TRUE
\* line 77: entries[at] is necessary iff the sum cannot be made without it
Necessary(at, sum) == at = 0 \/ ~load(at - 1, sum)

\* a variant that indexes the entries from the other end
MustIncludeMirrored(at) == Entry(total - 1 - at)
\* line 78: entries[current_i]
MustInclude(at) == Entry(at)

\* a variant that adds the entry
NextSumAdds(sum, must_include) == AsUsize(sum + must_include)
\* line 82: ((current_sum as isize) - (must_include as isize)) as usize
NextSum(sum, must_include) == AsUsize(sum - must_include)

\* the entry sequences and targets run_algorithm is called with
Vals == (-MaxAbs) .. MaxAbs

Abs(x) == IF x < 0 THEN -x ELSE x

EntrySeqs ==
    {es \in UNION {[1 .. n -> Vals] : n \in 0 .. MaxN} :
        SumSeq([k \in 1 .. Len(es) |-> Abs(es[k])]) <= MaxSpan}

\* every sum in reach, one beyond on either side, and two targets whose
\* index is in the last word's padding or beyond it
Targets ==
    ((-(MaxSpan + 1)) .. (MaxSpan + 1)) \cup {WordBits - 1, WordBits}

EngineIdle ==
    /\ entries = <<>> /\ target = NoTarget /\ sink = FALSE /\ pc = "off"
    /\ zero_index = 0 /\ sum_size = 0 /\ dp_table = <<>> /\ i = 0
    /\ todo = {} /\ progress = 0 /\ current_i = 0 /\ current_sum = 0
    /\ subset = <<>> /\ ret = "running"

NoIter == [live |-> FALSE, idx |-> 0, back_idx |-> 0, advances |-> 0]

\* n is the number a call returned: size_hint's, or advance_by's Err(n)
NoYield == [op |-> "none", some |-> FALSE, value |-> FALSE, panicked |-> FALSE,
            n |-> 0]

\* no iterator has been made
IterIdle ==
    /\ it = NoIter
    /\ taken = [front |-> 0, back |-> 0]
    /\ last_yield = NoYield

\* owner_op.ctor is the bit capacity the vector was constructed with, or -1;
\* owner_op.word is the word the last resize's factory made
BitVecIdle ==
    /\ data = <<>> /\ cap = 0
    /\ owner_op = [op |-> "new", arg |-> 0, ctor |-> -1, word |-> {}]
    /\ thr = [t \in 1 .. NumThreads |->
                 [op |-> "idle", idx |-> 0, val |-> FALSE, ret |-> FALSE,
                  panicked |-> FALSE, cnt |-> 0]]
    /\ fresh = TRUE
    /\ IterIdle

\* GLOBAL holding None
NoGlobal == [some |-> FALSE, out_of |-> 0]

NoOutput == [ret |-> "none", subset |-> <<>>]

\* tick tells one poll from the next when both return the same
NoPoll == [kind |-> "none", progress |-> 0, out_of |-> 0, output |-> NoOutput,
           tick |-> 0]

\* GLOBAL is None and no run was started
ChannelIdle ==
    /\ global = NoGlobal /\ queue = <<>> /\ sender = "none"
    /\ last_poll = NoPoll /\ done_polls = 0 /\ sends = 0 /\ runs = 0

CliOff == [stage |-> "off", target |-> 0, n_entries |-> 0, entries |-> <<>>]

UiOff == [stage |-> "off", target_input |-> <<>>, numbers_input |-> <<>>,
          button_clicked |-> FALSE, target |-> 0, number_set |-> <<>>]

\* neither front end is running
FrontIdle == cli = CliOff /\ ui = UiOff

NoReply == [kind |-> "none", progress |-> 0, out_of |-> 0, run |-> 0,
            answer |-> "none", tick |-> 0]

\* no run was started: GLOBAL holds None
JobsIdle == jobs = <<>> /\ glob = 0 /\ reply = NoReply

\* root crate, AtomicBitVec::new(): no blocks, and no iterator yet
NoRoot == [data |-> <<>>, live |-> FALSE, idx |-> 0]

NoSeqs == [vendored |-> <<>>, vendored_done |-> FALSE,
           root |-> <<>>, root_done |-> FALSE, panicked |-> {}]

RootIdle == root = NoRoot /\ seqs = NoSeqs

\* run_algorithm(target, entries, progress) has been called
Init ==
    /\ entries \in EntrySeqs
    /\ sink \in BOOLEAN
    /\ target = NoTarget
    /\ pc = "start"
    /\ zero_index = 0 /\ sum_size = 0 /\ dp_table = <<>> /\ i = 0
    /\ todo = {} /\ progress = 0 /\ current_i = 0 /\ current_sum = 0
    /\ subset = <<>> /\ ret = "running"
    /\ BitVecIdle
    /\ ChannelIdle
    /\ FrontIdle
    /\ JobsIdle
    /\ RootIdle

Panic ==
    /\ pc' = "panicked"
    /\ ret' = "panic"

\* lines 7-28; an overflow panics in a build with overflow checks and wraps
\* in one without
Setup ==
    /\ UNCHANGED <<bvars, cvars, ivars, fvars, rvars, xvars>>
    /\ pc = "start"
    /\ \E checks \in BOOLEAN :
          IF checks /\ SetupOverflows(entries)
          THEN Panic /\ UNCHANGED <<zero_index, sum_size, dp_table>>
          ELSE /\ zero_index' = most_negative(entries)
               /\ sum_size' = (most_negative(entries) + 1
                                + most_positive(entries)) % UsizeModulus
               /\ dp_table' = create_dp_table(sum_size', total)
               /\ pc' = "loop"
               /\ ret' = ret
    /\ i' = 0
    /\ UNCHANGED <<entries, target, sink, todo, progress, current_i,
                   current_sum, subset>>

\* lines 30-34: the loop head and the store to the progress sink
StoreProgress ==
    /\ UNCHANGED <<bvars, cvars, ivars, fvars, rvars, xvars>>
    /\ pc = "loop"
    /\ i < total
    /\ progress' = IF sink THEN ProgressValue(i) ELSE progress
    /\ pc' = "base"
    /\ UNCHANGED <<entries, target, sink, zero_index, sum_size, dp_table, i,
                   todo, current_i, current_sum, subset, ret>>

\* lines 36-41: bit zero_index of row i, and row 0's second bit; for a later
\* row the first par_iter starts (over an empty range both return at once)
SetBase ==
    /\ UNCHANGED <<bvars, cvars, ivars, fvars, rvars, xvars>>
    /\ pc = "base"
    /\ LET current_entry == Entry(i)
           second == AsUsize(zero_index + current_entry)
       IN  IF ~InBounds(Row(i), zero_index)
           THEN Panic /\ UNCHANGED <<dp_table, i, todo>>
           ELSE IF i = 0
           THEN IF ~InBounds(Row(i), second)
                THEN /\ Panic
                     /\ dp_table' = set_true(dp_table, i, zero_index)
                     /\ UNCHANGED <<i, todo>>
                ELSE /\ dp_table' =
                            set_true(set_true(dp_table, i, zero_index), i, second)
                     /\ i' = i + 1
                     /\ pc' = "loop"
                     /\ UNCHANGED <<todo, ret>>
           ELSE IF sum_size = 0
           THEN /\ dp_table' = set_true(dp_table, i, zero_index)
                /\ i' = i + 1
                /\ pc' = "loop"
                /\ UNCHANGED <<todo, ret>>
           ELSE /\ dp_table' = set_true(dp_table, i, zero_index)
                /\ todo' = 0 .. (sum_size - 1)
                /\ pc' = "carry"
                /\ UNCHANGED <<i, ret>>
    /\ UNCHANGED <<entries, target, sink, zero_index, sum_size, progress,
                   current_i, current_sum, subset>>

\* lines 43-48: one task of the first par_iter; for_each returns (and the
\* second par_iter starts) when every task has run
CarryTask(j) ==
    /\ UNCHANGED <<bvars, cvars, ivars, fvars, rvars, xvars>>
    /\ pc = "carry"
    /\ j \in todo
    /\ IF ~InBounds(Row(SourceRow(i)), j)
       THEN Panic /\ UNCHANGED <<dp_table, todo>>
       ELSE /\ dp_table' = IF load(SourceRow(i), j)
                           THEN set_true(dp_table, i, j)
                           ELSE dp_table
            /\ IF ForEachReturns(todo, j)
               THEN /\ todo' = 0 .. (sum_size - 1)
                    /\ pc' = "shift"
               ELSE /\ todo' = todo \ {j}
                    /\ pc' = pc
            /\ ret' = ret
    /\ UNCHANGED <<entries, target, sink, zero_index, sum_size, i, progress,
                   current_i, current_sum, subset>>

\* lines 50-64: one task of the second par_iter; the loop advances when
\* every task has run
ShiftTask(j) ==
    /\ UNCHANGED <<bvars, cvars, ivars, fvars, rvars, xvars>>
    /\ pc = "shift"
    /\ j \in todo
    /\ LET index == ShiftIndex(j, Entry(i))
           hit == /\ index >= 0
                  /\ AsUsize(index) < sum_size
                  /\ load(SourceRow(i), AsUsize(index))
       IN  IF index >= 0 /\ AsUsize(index) < sum_size
              /\ ~InBounds(Row(SourceRow(i)), AsUsize(index))
           THEN Panic /\ UNCHANGED <<dp_table, todo, i>>
           ELSE /\ dp_table' = IF hit THEN set_true(dp_table, i, j)
                               ELSE dp_table
                /\ IF ForEachReturns(todo, j)
                   THEN /\ todo' = {}
                        /\ i' = i + 1
                        /\ pc' = "loop"
                   ELSE /\ todo' = todo \ {j}
                        /\ i' = i
                        /\ pc' = pc
                /\ ret' = ret
    /\ UNCHANGED <<entries, target, sink, zero_index, sum_size, progress,
                   current_i, current_sum, subset>>

\* lines 68-74 and 97-99: the loop is over; read row total - 1 at the
\* target's index.  With total = 0, total - 1 overflows (a panic when
\* overflow checks are on) or wraps to usize::MAX, which indexes the empty
\* Vec (a panic as well).
CompletionCheck(t) ==
    /\ UNCHANGED <<bvars, cvars, ivars, fvars, rvars, xvars>>
    /\ pc = "loop"
    /\ i = total
    /\ target' = t
    /\ LET wanted == WantedIndex(t, zero_index)
       IN  IF total = 0
           THEN Panic /\ UNCHANGED <<current_i, current_sum, subset>>
           ELSE IF ~InBounds(Row(ResultRow(total)), wanted)
           THEN Panic /\ UNCHANGED <<current_i, current_sum, subset>>
           ELSE IF load(ResultRow(total), wanted)
           THEN /\ subset' = <<>>
                /\ current_sum' = wanted
                /\ current_i' = total - 1
                /\ pc' = "backtrack"
                /\ ret' = ret
           ELSE /\ pc' = "done"
                /\ ret' = "None"
                /\ UNCHANGED <<current_i, current_sum, subset>>
    /\ UNCHANGED <<entries, sink, zero_index, sum_size, dp_table, i, todo,
                   progress>>

\* lines 76-96: one iteration of the backtracking loop, and the return
\* when it breaks or runs out
BacktrackStep ==
    /\ UNCHANGED <<bvars, cvars, ivars, fvars, rvars, xvars>>
    /\ pc = "backtrack"
    /\ IF current_i # 0 /\ ~InBounds(Row(current_i - 1), current_sum)
       THEN Panic /\ UNCHANGED <<current_i, current_sum, subset>>
       ELSE LET necessary == Necessary(current_i, current_sum)
                must_include == MustInclude(current_i)
                next_sum == IF necessary
                            THEN NextSum(current_sum, must_include)
                            ELSE current_sum
            IN  /\ subset' = IF necessary THEN Append(subset, must_include)
                             ELSE subset
                /\ current_sum' = next_sum
                /\ IF next_sum = zero_index \/ current_i = 0
                   THEN /\ pc' = "done"
                        /\ ret' = "Some"
                        /\ current_i' = current_i
                   ELSE /\ pc' = pc
                        /\ ret' = ret
                        /\ current_i' = current_i - 1
    /\ UNCHANGED <<entries, target, sink, zero_index, sum_size, dp_table, i,
                   todo, progress>>

Next ==
    \/ Setup
    \/ StoreProgress
    \/ SetBase
    \/ \E j \in 0 .. (sum_size - 1) : CarryTask(j)
    \/ \E j \in 0 .. (sum_size - 1) : ShiftTask(j)
    \/ \E t \in Targets : CompletionCheck(t)
    \/ BacktrackStep

Spec == Init /\ [][Next]_vars

\* entry sequences on which lines 9-26 overflow: the negation of i64::MIN,
\* and sums of magnitudes that reach or pass usize::MAX
WideSeqs ==
    {<<IsizeMin>>}
    \cup {<<v, IsizeMax, IsizeMax>> : v \in 1 .. (MaxAbs + 1)}
    \cup {<<-1, v, IsizeMax, IsizeMax>> : v \in 1 .. (MaxAbs + 1)}

\* run_algorithm has been called with such entries
InitWide ==
    /\ entries \in WideSeqs
    /\ sink \in BOOLEAN
    /\ target = NoTarget
    /\ pc = "start"
    /\ zero_index = 0 /\ sum_size = 0 /\ dp_table = <<>> /\ i = 0
    /\ todo = {} /\ progress = 0 /\ current_i = 0 /\ current_sum = 0
    /\ subset = <<>> /\ ret = "running"
    /\ BitVecIdle
    /\ ChannelIdle
    /\ FrontIdle
    /\ JobsIdle
    /\ RootIdle

SpecWide == InitWide /\ [][Next]_vars

---------------------------------------------------------------------------
(* The sweeps of a row under a freer schedule than rayon's two for_each    *)
(* calls give them: the tasks of both closures (lines 45-47 and 52-62) in  *)
(* one pool, run in any order, so that the shift sweep may run before the  *)
(* carry sweep or interleave with it task by task.                         *)

\* the tasks of both sweeps of a row
SweepPool ==
    {[sweep |-> s, j |-> j] : s \in {"carry", "shift"}, j \in 0 .. (sum_size - 1)}

\* lines 36-37 for a row after the first, then both sweeps start together
StartPool ==
    /\ UNCHANGED <<bvars, cvars, ivars, fvars, rvars, xvars>>
    /\ pc = "base"
    /\ i > 0
    /\ sum_size > 0
    /\ InBounds(Row(i), zero_index)
    /\ dp_table' = set_true(dp_table, i, zero_index)
    /\ todo' = SweepPool
    /\ pc' = "sweeps"
    /\ UNCHANGED <<entries, target, sink, zero_index, sum_size, i, progress,
                   current_i, current_sum, subset, ret>>

\* one task of the pool: the body of the closure at lines 45-47 (carry) or
\* at lines 52-62 (shift); the loop advances when the pool is empty
PoolTask(s, j) ==
    /\ UNCHANGED <<bvars, cvars, ivars, fvars, rvars, xvars>>
    /\ pc = "sweeps"
    /\ [sweep |-> s, j |-> j] \in todo
    /\ LET index == ShiftIndex(j, Entry(i))
           hit == IF s = "carry"
                  THEN load(SourceRow(i), j)
                  ELSE /\ index >= 0
                       /\ AsUsize(index) < sum_size
                       /\ load(SourceRow(i), AsUsize(index))
       IN  dp_table' = IF hit THEN set_true(dp_table, i, j) ELSE dp_table
    /\ IF ForEachReturns(todo, [sweep |-> s, j |-> j])
       THEN /\ todo' = {}
            /\ i' = i + 1
            /\ pc' = "loop"
       ELSE /\ todo' = todo \ {[sweep |-> s, j |-> j]}
            /\ i' = i
            /\ pc' = pc
    /\ UNCHANGED <<entries, target, sink, zero_index, sum_size, progress,
                   current_i, current_sum, subset, ret>>

\* run_algorithm has been called, with a few short entry sequences
InitSweeps ==
    /\ entries \in UNION {[1 .. n -> {-1, 2}] : n \in 0 .. MaxUiN}
    /\ sink = FALSE
    /\ target = NoTarget
    /\ pc = "start"
    /\ zero_index = 0 /\ sum_size = 0 /\ dp_table = <<>> /\ i = 0
    /\ todo = {} /\ progress = 0 /\ current_i = 0 /\ current_sum = 0
    /\ subset = <<>> /\ ret = "running"
    /\ BitVecIdle
    /\ ChannelIdle
    /\ FrontIdle
    /\ JobsIdle
    /\ RootIdle

\* the table's construction, each row's sweeps scheduled as the code does
\* (CarryTask, ShiftTask) or from the pool
NextSweeps ==
    \/ Setup
    \/ StoreProgress
    \/ SetBase
    \/ \E j \in 0 .. (sum_size - 1) : CarryTask(j)
    \/ \E j \in 0 .. (sum_size - 1) : ShiftTask(j)
    \/ StartPool
    \/ \E s \in {"carry", "shift"}, j \in 0 .. (sum_size - 1) : PoolTask(s, j)

SpecSweeps == InitSweeps /\ [][NextSweeps]_vars

---------------------------------------------------------------------------
(* A stand-alone AtomicBitVec: its owner builds and resizes it (&mut self), *)
(* then threads sharing it (&self) each perform one set or get; the owner  *)
(* has it back when they are joined.                                       *)

Threads == 1 .. NumThreads

\* capacities and sizes in bits the owner asks for: around the block
\* boundaries, and the two ends of the range where adding 64 overflows
BitSizes ==
    {b * WordBits + o : b \in 0 .. (MaxBlocks - 1), o \in {0, 1, WordBits - 1}}
    \cup {UsizeMax - (WordBits - 1), UsizeMax}

\* indices the threads use: two in the first word, the first of each later
\* word, and one past the largest vector
ThreadIdxs == {0, WordBits - 1} \cup {b * WordBits : b \in 1 .. MaxBlocks}

\* the words a factory f makes: AtomicU64::new(0), AtomicU64::new(u64::MAX)
FactoryWords == {{}, AllBits}

Idle == [op |-> "idle", idx |-> 0, val |-> FALSE, ret |-> FALSE,
         panicked |-> FALSE, cnt |-> 0]

\* the owner has the vector to itself (&mut self) and has not panicked
AllIdle ==
    /\ owner_op.op # "panicked"
    /\ \A t \in Threads : thr[t] = Idle

\* the owner's call panicked on an overflow
OwnerPanic(n) ==
    /\ owner_op' = [op |-> "panicked", arg |-> n, ctor |-> -1, word |-> {}]
    /\ UNCHANGED <<data, cap, fresh>>

\* AtomicBitVec::new()
InitBitVec ==
    /\ EngineIdle
    /\ ChannelIdle
    /\ FrontIdle
    /\ JobsIdle
    /\ RootIdle
    /\ data = <<>>
    /\ cap = 0
    /\ owner_op = [op |-> "new", arg |-> 0, ctor |-> -1, word |-> {}]
    /\ thr = [t \in Threads |-> Idle]
    /\ fresh = TRUE
    /\ IterIdle

\* Vec's capacity is never below its length
Reserve(c, d) == IF Len(d) > c THEN Len(d) ELSE c

\* let s = AtomicBitVec::with_bit_capacity(bit_cap)
WithBitCapacity(bit_cap) ==
    /\ UNCHANGED <<evars, cvars, ivars, fvars, rvars, xvars>>
    /\ AllIdle
    /\ \E checks \in BOOLEAN :
          IF checks /\ AddOverflows(bit_cap, WordBits)
          THEN OwnerPanic(bit_cap)
          ELSE /\ data' = <<>>
               /\ cap' = with_bit_capacity(bit_cap)
               /\ owner_op' = [op |-> "with_bit_capacity", arg |-> bit_cap,
                               ctor |-> bit_cap, word |-> {}]
               /\ fresh' = TRUE
    /\ UNCHANGED thr

\* let s = AtomicBitVec::with_capacity(blocks)
WithCapacity(blocks) ==
    /\ UNCHANGED <<evars, cvars, ivars, fvars, rvars, xvars>>
    /\ AllIdle
    /\ data' = <<>>
    /\ cap' = blocks
    /\ owner_op' = [op |-> "with_capacity", arg |-> blocks, ctor |-> -1,
                    word |-> {}]
    /\ fresh' = TRUE
    /\ UNCHANGED thr

\* s.resize_bits_with(new_bits, f)
ResizeBitsWith(new_bits, word) ==
    /\ UNCHANGED <<evars, cvars, ivars, fvars, rvars, xvars>>
    /\ AllIdle
    /\ \E checks \in BOOLEAN :
          IF checks /\ AddOverflows(new_bits, WordBits)
          THEN OwnerPanic(new_bits)
          ELSE /\ data' = resize_bits_with(data, new_bits, word)
               /\ cap' = Reserve(cap, data')
               /\ owner_op' = [owner_op EXCEPT !.op = "resize_bits_with",
                                               !.arg = new_bits,
                                               !.word = word]
               /\ fresh' = (count_ones(data') = 0)
    /\ UNCHANGED thr

\* s.resize_blocks_with(new_blocks, f)
ResizeBlocksWith(new_blocks, word) ==
    /\ UNCHANGED <<evars, cvars, ivars, fvars, rvars, xvars>>
    /\ AllIdle
    /\ data' = resize_blocks_with(data, new_blocks, word)
    /\ cap' = Reserve(cap, data')
    /\ owner_op' = [owner_op EXCEPT !.op = "resize_blocks_with",
                                    !.arg = new_blocks,
                                    !.word = word]
    /\ fresh' = (count_ones(data') = 0)
    /\ UNCHANGED thr

\* thread t calls s.set(idx, value, ordering): the index check, then one
\* atomic fetch_or / fetch_and
ThreadSet(t, idx, value) ==
    /\ UNCHANGED <<evars, cvars, ivars, fvars, rvars, xvars>>
    /\ thr[t] = Idle
    /\ IF InBounds(data, idx)
       THEN /\ data' = set(data, idx, value)
            /\ thr' = [thr EXCEPT ![t] =
                          [op |-> "set", idx |-> idx, val |-> value,
                           ret |-> set_prev(data, idx), panicked |-> FALSE,
                           cnt |-> 0]]
       ELSE /\ data' = data
            /\ thr' = [thr EXCEPT ![t] =
                          [op |-> "set", idx |-> idx, val |-> value,
                           ret |-> FALSE, panicked |-> TRUE, cnt |-> 0]]
    /\ UNCHANGED <<cap, owner_op, fresh>>

\* thread t calls s.get(idx, ordering): the index check, then one atomic load
ThreadGet(t, idx) ==
    /\ UNCHANGED <<evars, cvars, ivars, fvars, rvars, xvars>>
    /\ thr[t] = Idle
    /\ thr' = [thr EXCEPT ![t] =
                  IF InBounds(data, idx)
                  THEN [op |-> "get", idx |-> idx, val |-> FALSE,
                        ret |-> get(data, idx), panicked |-> FALSE,
                        cnt |-> 0]
                  ELSE [op |-> "get", idx |-> idx, val |-> FALSE,
                        ret |-> FALSE, panicked |-> TRUE, cnt |-> 0]]
    /\ UNCHANGED <<data, cap, owner_op, fresh>>

\* the threads are joined
Join ==
    /\ UNCHANGED <<evars, cvars, ivars, fvars, rvars, xvars>>
    /\ ~AllIdle
    /\ \A t \in Threads :
           thr[t].op = "count_ones" => thr[t].idx = block_cnt(data)
    /\ thr' = [t \in Threads |-> Idle]
    /\ fresh' = (count_ones(data) = 0)
    /\ UNCHANGED <<data, cap, owner_op>>

NextResize ==
    \/ \E c \in BitSizes : WithBitCapacity(c)
    \/ \E b \in 0 .. MaxBlocks : WithCapacity(b)
    \/ \E n \in BitSizes, w \in FactoryWords : ResizeBitsWith(n, w)
    \/ \E b \in 0 .. MaxBlocks, w \in FactoryWords : ResizeBlocksWith(b, w)

\* the owner's operations, from AtomicBitVec::new()
SpecResize == InitBitVec /\ [][NextResize]_vars

\* a vector the owner has built, with_bit_capacity(n) then
\* resize_bits_with(n, f), and now shares with the threads
InitShared ==
    /\ EngineIdle
    /\ ChannelIdle
    /\ FrontIdle
    /\ JobsIdle
    /\ RootIdle
    /\ \E n \in BitSizes, w \in FactoryWords :
           data = resize_bits_with(<<>>, n, w)
    /\ cap = Len(data)
    /\ owner_op = [op |-> "share", arg |-> 0, ctor |-> -1, word |-> {}]
    /\ thr = [t \in Threads |-> Idle]
    /\ fresh = (count_ones(data) = 0)
    /\ IterIdle

NextBitVec ==
    \/ \E t \in Threads, idx \in ThreadIdxs, v \in BOOLEAN : ThreadSet(t, idx, v)
    \/ \E t \in Threads, idx \in ThreadIdxs : ThreadGet(t, idx)
    \/ Join

\* the threads' operations on a shared vector
SpecBitVec == InitShared /\ [][NextBitVec]_vars

\* thread t calls s.count_ones(ordering): the iterator over the blocks is
\* made; thr[t].idx counts the blocks loaded, thr[t].cnt is the sum so far
CountOnesStart(t) ==
    /\ UNCHANGED <<evars, cvars, ivars, fvars, rvars, xvars>>
    /\ thr[t] = Idle
    /\ thr' = [thr EXCEPT ![t] = [Idle EXCEPT !.op = "count_ones"]]
    /\ UNCHANGED <<data, cap, owner_op, fresh>>

\* count_ones loads the next block, one atomic load, and adds its ones
CountOnesLoad(t) ==
    /\ UNCHANGED <<evars, cvars, ivars, fvars, rvars, xvars>>
    /\ thr[t].op = "count_ones"
    /\ thr[t].idx < block_cnt(data)
    /\ thr' = [thr EXCEPT
                  ![t].cnt = thr[t].cnt + Cardinality(data[thr[t].idx + 1]),
                  ![t].idx = thr[t].idx + 1]
    /\ UNCHANGED <<data, cap, owner_op, fresh>>

NextBitOps ==
    \/ \E t \in Threads, idx \in ThreadIdxs, v \in BOOLEAN : ThreadSet(t, idx, v)
    \/ \E t \in Threads, idx \in ThreadIdxs : ThreadGet(t, idx)
    \/ \E t \in Threads : CountOnesStart(t)
    \/ \E t \in Threads : CountOnesLoad(t)
    \/ Join

\* set, get and count_ones called by the threads on a shared vector
SpecBitOps == InitShared /\ [][NextBitOps]_vars

\* ---------------------------------------------------------------
\* The iterator over an AtomicBitVec nobody is mutating
\* ---------------------------------------------------------------

\* words that tell one index from another, and ascending from descending
IterWords == {{0}, {1, WordBits - 1}}

\* Iter::next, Iter::next_back: `if self.idx < self.back_idx`
HasNextInclusive(idx, back_idx) == idx <= back_idx

HasNext(idx, back_idx) == idx < back_idx

\* Iter::next_back: `self.back_idx.saturating_sub(1)`
saturating_sub(a, b) == IF a >= b THEN a - b ELSE 0

Yield(op, value) ==
    [op |-> op, some |-> TRUE, value |-> value, panicked |-> FALSE, n |-> 0]

YieldNone(op) ==
    [op |-> op, some |-> FALSE, value |-> FALSE, panicked |-> FALSE, n |-> 0]

\* get's index panic, reached from within the iterator
YieldPanic(op) ==
    [op |-> op, some |-> FALSE, value |-> FALSE, panicked |-> TRUE, n |-> 0]

\* AtomicBitVec::iter, Iter::new
IterNewStep ==
    /\ UNCHANGED <<evars, cvars, fvars, rvars>>
    /\ ~it.live
    /\ it' = [NoIter EXCEPT !.live = TRUE, !.back_idx = len(data)]
    /\ UNCHANGED <<bvars, taken, last_yield>>

IterNew == IterNewStep /\ UNCHANGED xvars

\* Iter::next
IterNextStep ==
    /\ UNCHANGED <<evars, cvars, fvars, rvars>>
    /\ it.live
    /\ ~last_yield.panicked
    /\ IF HasNext(it.idx, it.back_idx)
       THEN IF InBounds(data, it.idx)
            THEN /\ last_yield' = Yield("next", get(data, it.idx))
                 /\ it' = [it EXCEPT !.idx = it.idx + 1]
                 /\ taken' = [taken EXCEPT !.front = taken.front + 1]
            ELSE /\ last_yield' = YieldPanic("next")
                 /\ UNCHANGED <<it, taken>>
       ELSE /\ last_yield' = YieldNone("next")
            /\ UNCHANGED <<it, taken>>
    /\ UNCHANGED bvars

IterNext == IterNextStep /\ UNCHANGED xvars

\* Iter::next_back
IterNextBack ==
    /\ UNCHANGED <<evars, cvars, fvars, rvars, xvars>>
    /\ it.live
    /\ ~last_yield.panicked
    /\ IF HasNext(it.idx, it.back_idx)
       THEN IF it.back_idx >= 1 /\ InBounds(data, it.back_idx - 1)
            THEN /\ last_yield' = Yield("next_back",
                                        get(data, it.back_idx - 1))
                 /\ it' = [it EXCEPT
                              !.back_idx = saturating_sub(it.back_idx, 1)]
                 /\ taken' = [taken EXCEPT !.back = taken.back + 1]
            ELSE /\ last_yield' = YieldPanic("next_back")
                 /\ UNCHANGED <<it, taken>>
       ELSE /\ last_yield' = YieldNone("next_back")
            /\ UNCHANGED <<it, taken>>
    /\ UNCHANGED bvars

\* a vector of up to MaxBlocks blocks that its owner has filled and
\* that no thread touches any more
InitIter ==
    /\ EngineIdle
    /\ ChannelIdle
    /\ FrontIdle
    /\ JobsIdle
    /\ RootIdle
    /\ data \in UNION {[1 .. n -> IterWords] : n \in 0 .. MaxBlocks}
    /\ cap = Len(data)
    /\ owner_op = [op |-> "share", arg |-> 0, ctor |-> -1, word |-> {}]
    /\ thr = [t \in Threads |-> Idle]
    /\ fresh = (count_ones(data) = 0)
    /\ IterIdle

NextIter ==
    \/ IterNew
    \/ IterNext
    \/ IterNextBack

\* one iterator, driven from both ends in any order
SpecIter == InitIter /\ [][NextIter]_vars

\* the steps advance_by is called with: none, one, two, and usize::MAX
AdvanceSteps == {0, 1, 2, UsizeMax}

\* Iter::size_hint: back_idx - idx, which underflows when idx has passed
\* back_idx: a panic where overflow checks are on, a wrapped value where
\* they are off
IterSizeHint ==
    /\ UNCHANGED <<evars, cvars, fvars, rvars, xvars>>
    /\ it.live
    /\ ~last_yield.panicked
    /\ \E checks \in BOOLEAN :
          IF checks /\ it.idx > it.back_idx
          THEN last_yield' = YieldPanic("size_hint")
          ELSE last_yield' = [Yield("size_hint", FALSE) EXCEPT
                                 !.n = AsUsize(it.back_idx - it.idx)]
    /\ UNCHANGED <<bvars, it, taken>>

\* Iter::advance_by(n). The sums idx + n and the difference back_idx - idx
\* panic on overflow where the checks are on and wrap where they are off;
\* NonZero::new(0) is None, which unwrap panics on
IterAdvanceBy(n) ==
    /\ UNCHANGED <<evars, cvars, fvars, rvars, xvars>>
    /\ it.live
    /\ ~last_yield.panicked
    /\ it.advances < MaxAdvances
    /\ \E checks \in BOOLEAN :
          LET sum == AsUsize(it.idx + n)
              e == AsUsize(it.back_idx - it.idx)
              advanced == [it EXCEPT !.idx = sum, !.advances = it.advances + 1]
          IN  IF checks /\ AddOverflows(it.idx, n)
              THEN last_yield' = YieldPanic("advance_by") /\ it' = it
              ELSE IF sum <= it.back_idx
              THEN /\ last_yield' = Yield("advance_by", FALSE)
                   /\ it' = advanced
              ELSE IF (checks /\ it.idx > it.back_idx) \/ e = 0
              THEN last_yield' = YieldPanic("advance_by") /\ it' = it
              ELSE /\ last_yield' = [YieldNone("advance_by") EXCEPT !.n = e]
                   /\ it' = advanced
    /\ UNCHANGED <<bvars, taken>>

\* a vector of up to MaxIterBlocks blocks that nobody is mutating
InitAdvance ==
    /\ EngineIdle
    /\ ChannelIdle
    /\ FrontIdle
    /\ JobsIdle
    /\ RootIdle
    /\ data \in UNION {[1 .. n -> {{0}}] : n \in 0 .. MaxIterBlocks}
    /\ cap = Len(data)
    /\ owner_op = [op |-> "share", arg |-> 0, ctor |-> -1, word |-> {}]
    /\ thr = [t \in Threads |-> Idle]
    /\ fresh = (count_ones(data) = 0)
    /\ IterIdle

NextAdvance ==
    \/ IterNew
    \/ IterNext
    \/ IterNextBack
    \/ IterSizeHint
    \/ \E n \in AdvanceSteps : IterAdvanceBy(n)

\* one iterator, with every method of Iter called in any order
SpecAdvance == InitAdvance /\ [][NextAdvance]_vars

\* ---------------------------------------------------------------
\* The root crate's AtomicBitVec (src/src/lib.rs), given the same calls
\* as the vendored one
\* ---------------------------------------------------------------

\* src/src/lib.rs lines 11-13: (v + 64) & !63
root_next_mul_64(v) ==
    LET sum == (v + WordBits) % UsizeModulus
    IN  sum - (sum % WordBits)

\* lines 38-41
root_resize_bits_with(d, new_bits, word) ==
    LET blocks == root_next_mul_64(new_bits) \div WordBits
    IN  IF blocks <= Len(d) THEN SubSeq(d, 1, blocks)
        ELSE d \o [k \in 1 .. (blocks - Len(d)) |-> word]

\* lines 43-45: len() is the number of blocks
root_len(d) == Len(d)

\* lines 47-49
root_bit_size(d) == root_len(d) * WordBits

\* lines 74-78
root_loc_and_mask(idx) ==
    [block |-> idx \div WordBits, mask |-> {idx % WordBits}]

\* &self.data[loc] does not panic
RootInBounds(d, idx) == root_loc_and_mask(idx).block < Len(d)

\* lines 51-62
root_set(d, idx, value) ==
    LET lm == root_loc_and_mask(idx)
        dest == d[lm.block + 1]
    IN  [d EXCEPT ![lm.block + 1] =
            IF value THEN fetch_or(dest, lm.mask)
                     ELSE fetch_and(dest, NotMask(lm.mask))]

\* lines 64-68
root_get(d, idx) ==
    LET lm == root_loc_and_mask(idx)
    IN  BitAnd(d[lm.block + 1], lm.mask) # {}

\* lines 80-84
RECURSIVE root_count_ones(_)
root_count_ones(d) ==
    IF d = <<>> THEN 0
    ELSE Cardinality(Head(d)) + root_count_ones(Tail(d))

\* the sizes both vectors are resized to
PairSizes == {b * WordBits + o : b \in 0 .. (MaxBlocks - 1), o \in {0, 1}}

\* resize_bits_with(new_bits, f) on both vectors
PairResize(new_bits, word) ==
    /\ UNCHANGED <<evars, cvars, ivars, fvars, rvars>>
    /\ ~it.live /\ ~root.live
    /\ seqs.panicked = {}
    /\ data' = resize_bits_with(data, new_bits, word)
    /\ cap' = Reserve(cap, data')
    /\ owner_op' = [owner_op EXCEPT !.op = "resize_bits_with",
                                    !.arg = new_bits,
                                    !.word = word]
    /\ fresh' = (count_ones(data') = 0)
    /\ root' = [root EXCEPT
                   !.data = root_resize_bits_with(root.data, new_bits, word)]
    /\ UNCHANGED <<thr, seqs>>

\* set(idx, value) on both vectors; a call with idx out of bounds panics
PairSet(idx, value) ==
    /\ UNCHANGED <<evars, cvars, ivars, fvars, rvars>>
    /\ ~it.live /\ ~root.live
    /\ seqs.panicked = {}
    /\ data' = IF InBounds(data, idx) THEN set(data, idx, value) ELSE data
    /\ root' = IF RootInBounds(root.data, idx)
               THEN [root EXCEPT !.data = root_set(root.data, idx, value)]
               ELSE root
    /\ seqs' = [seqs EXCEPT
                   !.panicked =
                       (IF InBounds(data, idx) THEN {} ELSE {"vendored"})
                       \union (IF RootInBounds(root.data, idx) THEN {}
                               ELSE {"root"})]
    /\ fresh' = (count_ones(data') = 0)
    /\ UNCHANGED <<cap, owner_op, thr>>

\* iter(ordering) on both vectors: Iter::new and BitArrayIter::new
PairIter ==
    /\ IterNewStep
    /\ ~root.live
    /\ seqs.panicked = {}
    /\ root' = [root EXCEPT !.live = TRUE, !.idx = 0]
    /\ UNCHANGED seqs

\* next() on the vendored vector's iterator
VendoredNext ==
    /\ IterNextStep
    /\ seqs' = IF last_yield'.some
               THEN [seqs EXCEPT
                        !.vendored = Append(seqs.vendored, last_yield'.value)]
               ELSE IF last_yield'.panicked
               THEN [seqs EXCEPT !.panicked = seqs.panicked \union {"vendored"}]
               ELSE [seqs EXCEPT !.vendored_done = TRUE]
    /\ UNCHANGED root

\* src/src/lib.rs lines 109-115: BitArrayIter::next
RootNext ==
    /\ UNCHANGED <<evars, bvars, cvars, ivars, fvars, rvars>>
    /\ root.live
    /\ "root" \notin seqs.panicked
    /\ IF root.idx < root_len(root.data)
       THEN IF RootInBounds(root.data, root.idx)
            THEN /\ seqs' = [seqs EXCEPT
                                !.root = Append(seqs.root,
                                                root_get(root.data, root.idx))]
                 /\ root' = [root EXCEPT !.idx = root.idx + 1]
            ELSE /\ seqs' = [seqs EXCEPT
                                !.panicked = seqs.panicked \union {"root"}]
                 /\ root' = root
       ELSE /\ seqs' = [seqs EXCEPT !.root_done = TRUE]
            /\ root' = root

\* both crates' AtomicBitVec::new()
InitPair ==
    /\ EngineIdle
    /\ BitVecIdle
    /\ ChannelIdle
    /\ FrontIdle
    /\ JobsIdle
    /\ RootIdle

NextPair ==
    \/ \E n \in PairSizes, w \in FactoryWords : PairResize(n, w)
    \/ \E idx \in ThreadIdxs, v \in BOOLEAN : PairSet(idx, v)
    \/ PairIter
    \/ VendoredNext
    \/ RootNext

\* the same resize_bits_with and set calls on both vectors, then one
\* iterator over each
SpecPair == InitPair /\ [][NextPair]_vars

---------------------------------------------------------------------------
(* adder-ui/src-tauri/src/main.rs: the run_algorithm command starts a       *)
(* worker thread that runs the engine and sends its answer on a channel;   *)
(* check_algorithm polls.  The engine variables are the latest run's: a    *)
(* worker whose Global was replaced stores to a counter and sends on a     *)
(* channel that nobody else holds any more.                                *)

\* the number_set arguments of the run_algorithm command: up to MaxUiN
\* numbers, each -1 or 2
UiVals == {-1, 2}

UiSeqs == UNION {[1 .. n -> UiVals] : n \in 0 .. MaxUiN}

\* a variant that leaves the Global in place
AfterDoneKeep(g) == g
\* line 50: *lock = None
AfterDone(g) == NoGlobal

\* lines 19-39: a new channel and counter, GLOBAL replaced, the worker spawned
StartRun(number_set) ==
    /\ UNCHANGED <<bvars, ivars>>
    /\ runs < MaxRuns
    /\ entries' = number_set
    /\ target' = NoTarget
    /\ sink' = TRUE
    /\ pc' = "start"
    /\ zero_index' = 0 /\ sum_size' = 0 /\ dp_table' = <<>> /\ i' = 0
    /\ todo' = {} /\ progress' = 0 /\ current_i' = 0 /\ current_sum' = 0
    /\ subset' = <<>> /\ ret' = "running"
    /\ global' = [some |-> TRUE, out_of |-> Len(number_set)]
    /\ queue' = <<>>
    /\ sender' = "held"
    /\ last_poll' = NoPoll
    /\ done_polls' = 0
    /\ sends' = 0
    /\ runs' = runs + 1

\* the command, whoever invokes it
RunAlgorithmCmd(number_set) == StartRun(number_set) /\ UNCHANGED <<fvars, rvars, xvars>>

\* line 37: the engine returned; sender.send(answer), and the thread ends
WorkerSend ==
    /\ UNCHANGED <<bvars, ivars, fvars, rvars, xvars>>
    /\ pc = "done"
    /\ sender = "held"
    /\ queue' = Append(queue, [ret |-> ret, subset |-> subset])
    /\ sends' = sends + 1
    /\ sender' = "dropped"
    /\ pc' = "exited"
    /\ UNCHANGED <<entries, target, sink, zero_index, sum_size, dp_table, i,
                   todo, progress, current_i, current_sum, subset, ret>>
    /\ UNCHANGED <<global, last_poll, done_polls, runs>>

\* the engine panicked: the thread unwinds and drops the sender unsent
WorkerUnwind ==
    /\ UNCHANGED <<bvars, ivars, fvars, rvars, xvars>>
    /\ pc = "panicked"
    /\ sender = "held"
    /\ sender' = "dropped"
    /\ pc' = "exited"
    /\ UNCHANGED <<entries, target, sink, zero_index, sum_size, dp_table, i,
                   todo, progress, current_i, current_sum, subset, ret>>
    /\ UNCHANGED <<global, queue, last_poll, done_polls, sends, runs>>

\* lines 42-58, under the GLOBAL lock; try_recv is Ok only for a queued answer
CheckAlgorithm ==
    /\ UNCHANGED <<evars, bvars, ivars, fvars, rvars, xvars>>
    /\ IF global = NoGlobal
       THEN /\ last_poll' = [NoPoll EXCEPT !.kind = "NoAlgorithmRunning",
                                           !.tick = 1 - last_poll.tick]
            /\ UNCHANGED <<global, queue, done_polls>>
       ELSE IF queue # <<>>
       THEN /\ global' = AfterDone(global)
            /\ queue' = Tail(queue)
            /\ last_poll' = [NoPoll EXCEPT !.kind = "Done",
                                           !.output = Head(queue),
                                           !.tick = 1 - last_poll.tick]
            /\ done_polls' = done_polls + 1
       ELSE /\ last_poll' = [kind |-> "InProgress", progress |-> progress,
                             out_of |-> global.out_of, output |-> NoOutput,
                             tick |-> 1 - last_poll.tick]
            /\ UNCHANGED <<global, queue, done_polls>>
    /\ UNCHANGED <<sender, sends, runs>>

InitChannel ==
    /\ EngineIdle
    /\ BitVecIdle
    /\ ChannelIdle
    /\ FrontIdle
    /\ JobsIdle
    /\ RootIdle

NextChannel ==
    \/ \E number_set \in UiSeqs : RunAlgorithmCmd(number_set)
    \/ Setup
    \/ StoreProgress
    \/ SetBase
    \/ \E j \in 0 .. (sum_size - 1) : CarryTask(j)
    \/ \E j \in 0 .. (sum_size - 1) : ShiftTask(j)
    \/ \E t \in Targets : CompletionCheck(t)
    \/ BacktrackStep
    \/ WorkerSend
    \/ WorkerUnwind
    \/ CheckAlgorithm

SpecChannel == InitChannel /\ [][NextChannel]_vars

\* the worker thread is scheduled: whichever step it is at, it takes
WorkerStep ==
    \/ Setup
    \/ StoreProgress
    \/ SetBase
    \/ \E j \in 0 .. (sum_size - 1) : CarryTask(j)
    \/ \E j \in 0 .. (sum_size - 1) : ShiftTask(j)
    \/ \E t \in Targets : CompletionCheck(t)
    \/ BacktrackStep
    \/ WorkerSend
    \/ WorkerUnwind

FairSpecChannel == SpecChannel /\ WF_vars(WorkerStep)

\* the worker thread is scheduled, and the Calculating view's loop
\* (app.rs lines 232-273) keeps invoking check_algorithm
FairSpecPolling ==
    SpecChannel /\ WF_vars(WorkerStep) /\ WF_vars(CheckAlgorithm)

\* ---------------------------------------------------------------
\* Successive runs: every run_algorithm command spawns a worker of its
\* own, with its own counter and channel, and earlier workers run on.
\* Of the engine a worker keeps the loop index, the stores to the counter
\* and the way it ends.
\* ---------------------------------------------------------------

\* a variant that leaves an installed Global in place
GlobalKept(old, new) == IF old = 0 THEN new ELSE old

\* main.rs line 27: *GLOBAL.lock().unwrap() = Some(Global {..})
GlobalAfterRun(old, new) == new

\* lines 23-25 and 35: a new channel, a new counter at 0, a new worker
NewJob(n) ==
    [out_of |-> n, stage |-> "running", i |-> 0, counter |-> 0,
     answer |-> "none", sender |-> "held", send |-> "none",
     queue |-> <<>>, receiver |-> TRUE]

\* a Global that leaves GLOBAL is dropped, and its Receiver with it:
\* what was queued on that channel is gone
DropReceiver(job) == [job EXCEPT !.receiver = FALSE, !.queue = <<>>]

\* lines 19-39: the run_algorithm command for a number_set of n entries
JobStart(n) ==
    /\ UNCHANGED <<evars, bvars, cvars, ivars, fvars, xvars>>
    /\ Len(jobs) < MaxRuns
    /\ LET new == Len(jobs) + 1
           all == Append(jobs, NewJob(n))
       IN  /\ glob' = GlobalAfterRun(glob, new)
           /\ jobs' = [r \in 1 .. new |->
                          IF r = glob' \/ ~all[r].receiver THEN all[r]
                          ELSE DropReceiver(all[r])]
    /\ UNCHANGED reply

\* algorithm lib.rs lines 30-34: one iteration, progress.store(i)
JobStore(r) ==
    /\ UNCHANGED <<evars, bvars, cvars, ivars, fvars, xvars>>
    /\ r \in DOMAIN jobs
    /\ jobs[r].stage = "running"
    /\ jobs[r].i < jobs[r].out_of
    /\ jobs' = [jobs EXCEPT ![r].counter = jobs[r].i, ![r].i = jobs[r].i + 1]
    /\ UNCHANGED <<glob, reply>>

\* lib.rs lines 68-99: the engine returns Some(subset) or None
JobReturn(r, answer) ==
    /\ UNCHANGED <<evars, bvars, cvars, ivars, fvars, xvars>>
    /\ r \in DOMAIN jobs
    /\ jobs[r].stage = "running"
    /\ jobs[r].i = jobs[r].out_of
    /\ jobs' = [jobs EXCEPT ![r].stage = "returned", ![r].answer = answer]
    /\ UNCHANGED <<glob, reply>>

\* lib.rs line 69: the engine panics instead
JobPanic(r) ==
    /\ UNCHANGED <<evars, bvars, cvars, ivars, fvars, xvars>>
    /\ r \in DOMAIN jobs
    /\ jobs[r].stage = "running"
    /\ jobs[r].i = jobs[r].out_of
    /\ jobs' = [jobs EXCEPT ![r].stage = "panicked"]
    /\ UNCHANGED <<glob, reply>>

\* main.rs line 37: let _ = sender.send(answer); send fails when the
\* Receiver is gone, the failure is discarded, and the thread ends
JobSend(r) ==
    /\ UNCHANGED <<evars, bvars, cvars, ivars, fvars, xvars>>
    /\ r \in DOMAIN jobs
    /\ jobs[r].stage = "returned"
    /\ IF jobs[r].receiver
       THEN jobs' = [jobs EXCEPT
                        ![r].queue = Append(jobs[r].queue,
                                            [run |-> r,
                                             answer |-> jobs[r].answer]),
                        ![r].send = "ok",
                        ![r].sender = "dropped",
                        ![r].stage = "ended"]
       ELSE jobs' = [jobs EXCEPT ![r].send = "err",
                                 ![r].sender = "dropped",
                                 ![r].stage = "ended"]
    /\ UNCHANGED <<glob, reply>>

\* the worker unwinds after the panic: the Sender is dropped unsent
JobUnwind(r) ==
    /\ UNCHANGED <<evars, bvars, cvars, ivars, fvars, xvars>>
    /\ r \in DOMAIN jobs
    /\ jobs[r].stage = "panicked"
    /\ jobs' = [jobs EXCEPT ![r].sender = "dropped", ![r].stage = "ended"]
    /\ UNCHANGED <<glob, reply>>

\* main.rs lines 42-58: check_algorithm, under the GLOBAL lock.
\* reply.run is the run whose counter was loaded or whose worker sent
\* the answer received
JobPoll ==
    /\ UNCHANGED <<evars, bvars, cvars, ivars, fvars, xvars>>
    /\ IF glob = 0
       THEN /\ reply' = [NoReply EXCEPT !.kind = "NoAlgorithmRunning",
                                        !.tick = 1 - reply.tick]
            /\ UNCHANGED <<jobs, glob>>
       ELSE IF jobs[glob].queue # <<>>
       THEN /\ reply' = [NoReply EXCEPT
                            !.kind = "Done",
                            !.run = Head(jobs[glob].queue).run,
                            !.answer = Head(jobs[glob].queue).answer,
                            !.tick = 1 - reply.tick]
            /\ glob' = 0
            /\ jobs' = [jobs EXCEPT ![glob] = DropReceiver(jobs[glob])]
       ELSE /\ reply' = [NoReply EXCEPT
                            !.kind = "InProgress",
                            !.progress = jobs[glob].counter,
                            !.out_of = jobs[glob].out_of,
                            !.run = glob,
                            !.tick = 1 - reply.tick]
            /\ UNCHANGED <<jobs, glob>>

InitRuns ==
    /\ EngineIdle
    /\ BitVecIdle
    /\ ChannelIdle
    /\ FrontIdle
    /\ JobsIdle
    /\ RootIdle

NextRuns ==
    \/ \E n \in 0 .. MaxUiN : JobStart(n)
    \/ \E r \in 1 .. MaxRuns : JobStore(r)
    \/ \E r \in 1 .. MaxRuns, answer \in {"Some", "None"} : JobReturn(r, answer)
    \/ \E r \in 1 .. MaxRuns : JobPanic(r)
    \/ \E r \in 1 .. MaxRuns : JobSend(r)
    \/ \E r \in 1 .. MaxRuns : JobUnwind(r)
    \/ JobPoll

\* up to MaxRuns runs started one after another, their workers
\* interleaved with each other and with the polls
SpecRuns == InitRuns /\ [][NextRuns]_vars

\* ---------------------------------------------------------------
\* The front ends: the terminal program and the GatheringInput form
\* ---------------------------------------------------------------

\* the characters typed; a text is a sequence of them
RawChars == {"-", "0", "1", ".", "\n", "x"}

\* char::is_ascii_digit, on the characters typed
Digits == {"0", "1"}

\* char::is_whitespace, on the characters typed
Whitespace == {"\n"}

DigitValue(ch) == IF ch = "1" THEN 1 ELSE 0

RECURSIVE DigitsValue(_)
DigitsValue(s) ==
    IF s = <<>> THEN 0
    ELSE DigitsValue(SubSeq(s, 1, Len(s) - 1)) * 10 + DigitValue(s[Len(s)])

ParseErr == [ok |-> FALSE, value |-> 0]

\* str::parse::<i64>: an optional sign, then one or more digits
ParseI64(s) ==
    LET signed == s # <<>> /\ s[1] = "-"
        digits == IF signed THEN Tail(s) ELSE s
    IN  IF digits = <<>> \/ \E k \in 1 .. Len(digits) : digits[k] \notin Digits
        THEN ParseErr
        ELSE [ok |-> TRUE,
              value |-> IF signed THEN 0 - DigitsValue(digits)
                        ELSE DigitsValue(digits)]

\* str::parse::<usize>: one or more digits, and no minus sign
ParseUsize(s) ==
    IF s = <<>> \/ \E k \in 1 .. Len(s) : s[k] \notin Digits
    THEN ParseErr
    ELSE [ok |-> TRUE, value |-> DigitsValue(s)]

\* str::trim_end
RECURSIVE trim_end(_)
trim_end(s) ==
    IF s # <<>> /\ s[Len(s)] \in Whitespace
    THEN trim_end(SubSeq(s, 1, Len(s) - 1))
    ELSE s

\* str::split_whitespace: the maximal runs of other characters, in order
RECURSIVE SplitFrom(_, _, _)
SplitFrom(s, word, words) ==
    LET closed == IF word = <<>> THEN words ELSE Append(words, word)
    IN  IF s = <<>> THEN closed
        ELSE IF s[1] \in Whitespace THEN SplitFrom(Tail(s), <<>>, closed)
        ELSE SplitFrom(Tail(s), Append(word, s[1]), words)

split_whitespace(s) == SplitFrom(s, <<>>, <<>>)

\* app.rs, number_set: every word parsed, an error if one does not parse
number_set(numbers) ==
    LET words == split_whitespace(numbers)
        parsed == [k \in 1 .. Len(words) |-> ParseI64(words[k])]
    IN  [ok |-> \A k \in 1 .. Len(words) : parsed[k].ok,
         value |-> [k \in 1 .. Len(words) |-> parsed[k].value]]

\* the filters of the two update callbacks
FilterTarget(s) == SelectSeq(s, LAMBDA ch : ch \in Digits \union {"-", "."})

FilterNumbers(s) ==
    SelectSeq(s, LAMBDA ch : ch \in Digits \union {"-", "\r", "\n", "."})

\* a line as read_line returns it
Lines ==
    {Append(l, "\n") :
        l \in UNION {[1 .. n -> RawChars \ {"\n"}] : n \in 0 .. MaxText}}

\* the lines answering "number of entries" that ask for at most MaxUiN
CountLines ==
    {l \in Lines : LET r == ParseUsize(trim_end(l))
                   IN  ~r.ok \/ r.value <= MaxUiN}

\* the edits of a field: a character typed at the end, or the last
\* character deleted
Edits == RawChars \union {"Backspace"}

\* a field holds at most max characters here
CanEdit(old, e, max) ==
    IF e = "Backspace" THEN old # <<>> ELSE Len(old) < max

\* the new_value the field hands to its update callback
Edited(old, e) ==
    IF e = "Backspace" THEN SubSeq(old, 1, Len(old) - 1) ELSE Append(old, e)

\* cli main.rs lines 26-28: the target line; unwrap panics on an error
CliReadTarget(line) ==
    /\ UNCHANGED <<evars, bvars, cvars, ivars, ui, rvars, xvars>>
    /\ cli.stage = "target"
    /\ LET r == ParseI64(trim_end(line))
       IN  IF r.ok
           THEN cli' = [cli EXCEPT !.stage = "count", !.target = r.value]
           ELSE cli' = [cli EXCEPT !.stage = "panic"]

\* lines 33-35: the number of entries
CliReadCount(line) ==
    /\ UNCHANGED <<evars, bvars, cvars, ivars, ui, rvars, xvars>>
    /\ cli.stage = "count"
    /\ LET r == ParseUsize(trim_end(line))
       IN  IF r.ok
           THEN cli' = [cli EXCEPT !.stage = "entries", !.n_entries = r.value]
           ELSE cli' = [cli EXCEPT !.stage = "panic"]

\* lines 39-44: one turn of the loop over 0..n_entries
CliReadEntry(line) ==
    /\ UNCHANGED <<evars, bvars, cvars, ivars, ui, rvars, xvars>>
    /\ cli.stage = "entries"
    /\ Len(cli.entries) < cli.n_entries
    /\ LET r == ParseI64(trim_end(line))
       IN  IF r.ok
           THEN cli' = [cli EXCEPT !.entries = Append(cli.entries, r.value)]
           ELSE cli' = [cli EXCEPT !.stage = "panic"]

\* lines 4-6: gather_input has returned;
\* run_algorithm(target, entries, None) is called
CliInvoke ==
    /\ UNCHANGED <<bvars, cvars, ivars, ui, rvars, xvars>>
    /\ cli.stage = "entries"
    /\ Len(cli.entries) = cli.n_entries
    /\ cli' = [cli EXCEPT !.stage = "running"]
    /\ entries' = cli.entries
    /\ sink' = FALSE
    /\ pc' = "start"
    /\ UNCHANGED <<target, zero_index, sum_size, dp_table, i, todo, progress,
                   current_i, current_sum, subset, ret>>

\* app.rs lines 298-307: the target field's update callback
UiTypeTarget(e) ==
    /\ UNCHANGED <<evars, bvars, cvars, ivars, cli, rvars, xvars>>
    /\ ui.stage = "gathering"
    /\ CanEdit(ui.target_input, e, MaxText)
    /\ ui' = [ui EXCEPT
                 !.target_input = FilterTarget(Edited(ui.target_input, e))]

\* lines 309-319: the numbers area's update callback
UiTypeNumbers(e) ==
    /\ UNCHANGED <<evars, bvars, cvars, ivars, cli, rvars, xvars>>
    /\ ui.stage = "gathering"
    /\ CanEdit(ui.numbers_input, e, MaxArea)
    /\ ui' = [ui EXCEPT
                 !.numbers_input = FilterNumbers(Edited(ui.numbers_input, e))]

\* lines 369-371: the Calculate button is rendered
ButtonShown(u) ==
    /\ ParseI64(u.target_input).ok \/ u.target_input = <<>>
    /\ number_set(u.numbers_input).ok

\* line 377: disabled
ButtonDisabled(u) ==
    \/ u.button_clicked
    \/ u.target_input = <<>>
    \/ number_set(u.numbers_input).value = <<>>

\* lines 330-342: the button's onclick, which emits (target, number_set)
UiClick ==
    /\ UNCHANGED <<evars, bvars, cvars, ivars, cli, rvars, xvars>>
    /\ ui.stage = "gathering"
    /\ ButtonShown(ui)
    /\ ~ButtonDisabled(ui)
    /\ IF ParseI64(ui.target_input).ok
       THEN ui' = [ui EXCEPT !.stage = "emitted",
                             !.button_clicked = TRUE,
                             !.target = ParseI64(ui.target_input).value,
                             !.number_set = number_set(ui.numbers_input).value]
       ELSE ui' = [ui EXCEPT !.stage = "panic", !.button_clicked = TRUE]

\* lines 92-107: on_calculate invokes the run_algorithm command, and the
\* application leaves GatheringInput
UiInvoke ==
    /\ UNCHANGED <<cli, rvars, xvars>>
    /\ ui.stage = "emitted"
    /\ ui' = [ui EXCEPT !.stage = "calculating"]
    /\ StartRun(ui.number_set)

\* one of the two front ends has been started
InitFront ==
    /\ EngineIdle
    /\ BitVecIdle
    /\ ChannelIdle
    /\ JobsIdle
    /\ RootIdle
    /\ \/ cli = [CliOff EXCEPT !.stage = "target"] /\ ui = UiOff
       \/ cli = CliOff /\ ui = [UiOff EXCEPT !.stage = "gathering"]

NextFront ==
    \/ \E line \in Lines : CliReadTarget(line)
    \/ \E line \in CountLines : CliReadCount(line)
    \/ \E line \in Lines : CliReadEntry(line)
    \/ CliInvoke
    \/ \E e \in Edits : UiTypeTarget(e)
    \/ \E e \in Edits : UiTypeNumbers(e)
    \/ UiClick
    \/ UiInvoke

\* a front end from its start to the call of the engine
SpecFront == InitFront /\ [][NextFront]_vars

---------------------------------------------------------------------------
(* Properties of run_algorithm, checked under Spec *)

RECURSIVE IndexSum(_)
\* the sum of the entries at the 0-based indices S
IndexSum(S) ==
    IF S = {} THEN 0
    ELSE LET k == CHOOSE x \in S : TRUE
         IN  Entry(k) + IndexSum(S \ {k})

\* the sums of the sub-multisets of entries[0..k), the empty one included
SubsetSums(k) == {IndexSum(S) : S \in SUBSET (0 .. (k - 1))}

RECURSIVE PickDescending(_)
\* the entries at the indices S, by descending index
PickDescending(S) ==
    IF S = {} THEN <<>>
    ELSE LET k == CHOOSE x \in S : \A y \in S : y <= x
         IN  <<Entry(k)>> \o PickDescending(S \ {k})

Returned == pc = "done"

Terminated == pc \in {"done", "panicked"}

\* the target's index is a bit of the rows
TargetInRange ==
    /\ target + zero_index >= 0
    /\ target + zero_index < sum_size

\* C1: for non-empty entries, a returned Some(subset) sums to the target.
C1_SomeSumsToTarget ==
    (Returned /\ ret = "Some" /\ total > 0) => SumSeq(subset) = target

\* C2: when run_algorithm returns None, no sub-multiset of the entries (the
\* empty one included) sums to the target, by exhaustive enumeration.
C2_NoneMeansUnreachable ==
    (Returned /\ ret = "None") => target \notin SubsetSums(total)

\* None for a target inside the span of the sums that no sub-multiset makes
C2_Witness ==
    /\ Returned /\ ret = "None"
    /\ TargetInRange
    /\ total >= 2

\* C3: for non-empty entries and a target whose index is outside
\* [0, sum_size), run_algorithm returns None and does not abort.
C3_OutOfRangeIsNone ==
    (Terminated /\ total > 0 /\ ~TargetInRange) => (Returned /\ ret = "None")

\* C4: with no entries, run_algorithm returns Some([]) for target 0 and None
\* for any other target.
C4_EmptyEntries ==
    (Terminated /\ total = 0) =>
        /\ Returned
        /\ IF target = 0 THEN ret = "Some" /\ subset = <<>>
                         ELSE ret = "None"

\* C5: a returned subset is the entries at some distinct original indices,
\* listed by strictly descending index: a sub-multiset of the entries.
C5_SubsetOfEntries ==
    (Returned /\ ret = "Some") =>
        \E S \in SUBSET (0 .. (total - 1)) : subset = PickDescending(S)

\* a subset of at least two entries that leaves some entry out
C5_Witness ==
    /\ Returned /\ ret = "Some"
    /\ Len(subset) >= 2
    /\ Len(subset) < total

\* C6: once the outer loop is past row k, bit b of row k (b < sum_size) is
\* set iff some sub-multiset of entries[0..=k] sums to b - zero_index.
C6_RowsAreSubsetSums ==
    pc # "start" =>
        \A k \in 0 .. (i - 1) : \A b \in 0 .. (sum_size - 1) :
            get(Row(k), b) <=> (b - zero_index) \in SubsetSums(k + 1)

\* the whole table is built, for three or more entries of both signs, and
\* the last row has a sum that cannot be made
C6_Witness ==
    /\ pc = "loop" /\ i = total /\ total >= 3
    /\ \E k \in 0 .. (total - 1) : Entry(k) < 0
    /\ \E k \in 0 .. (total - 1) : Entry(k) > 0
    /\ \E b \in 0 .. (sum_size - 1) : ~get(Row(total - 1), b)

\* a and b hold the same values the same number of times
SameMultiset(a, b) ==
    \A v \in Vals : Cardinality({k \in DOMAIN a : a[k] = v})
                    = Cardinality({k \in DOMAIN b : b[k] = v})

Positives == {k \in 0 .. (total - 1) : Entry(k) > 0}

Negatives == {k \in 0 .. (total - 1) : Entry(k) < 0}

\* C7 as stated: for non-empty entries and target = most_positive or
\* target = -most_negative, the result is Some(all the entries).
C7_AllEntries ==
    (/\ Terminated /\ total > 0
     /\ \/ target = most_positive(entries)
        \/ target = -most_negative(entries))
    => (Returned /\ ret = "Some" /\ SameMultiset(subset, entries))

\* C7, amended: for non-empty entries, target = most_positive # 0 returns
\* Some(the positive entries) and target = -most_negative # 0 returns
\* Some(the negative entries), by descending index; when that extreme is 0
\* and there are two or more entries, Some([]).
C7_EntriesOfThatSign ==
    (Terminated /\ total > 0) =>
        /\ (target = most_positive(entries) /\ target # 0) =>
              (Returned /\ ret = "Some" /\ subset = PickDescending(Positives))
        /\ (target = -most_negative(entries) /\ target # 0) =>
              (Returned /\ ret = "Some" /\ subset = PickDescending(Negatives))
        /\ (/\ target = 0
            /\ most_positive(entries) = 0 \/ most_negative(entries) = 0
            /\ total >= 2) =>
              (Returned /\ ret = "Some" /\ subset = <<>>)

\* the largest sum of three or more entries of both signs was asked for,
\* and the negative ones were left out
C7_Witness ==
    /\ Returned /\ ret = "Some" /\ total >= 3
    /\ target = most_positive(entries) /\ target > 0
    /\ Negatives # {}
    /\ Cardinality(Positives) >= 2
    /\ subset = PickDescending(Positives)

\* what a run on (t, entries) returns, computed from the entries alone with
\* no sweep and no schedule: bit b of row k is set iff b - zero is a sum of
\* entries[0..=k]
RefZero == most_negative(entries)

RefSize == most_negative(entries) + 1 + most_positive(entries)

RefBit(k, b) == b < RefSize /\ (b - RefZero) \in SubsetSums(k + 1)

RECURSIVE RefBacktrack(_, _, _)
RefBacktrack(at, sum, acc) ==
    LET necessary == at = 0 \/ ~RefBit(at - 1, sum)
        next_sum == IF necessary THEN AsUsize(sum - Entry(at)) ELSE sum
        next_acc == IF necessary THEN Append(acc, Entry(at)) ELSE acc
    IN  IF next_sum = RefZero \/ at = 0 THEN next_acc
        ELSE RefBacktrack(at - 1, next_sum, next_acc)

RefResult(t) ==
    LET wanted == AsUsize(t + RefZero)
    IN  IF total = 0 \/ wanted >= next_mul_64(RefSize)
        THEN [ret |-> "panic", subset |-> <<>>]
        ELSE IF RefBit(total - 1, wanted)
        THEN [ret |-> "Some", subset |-> RefBacktrack(total - 1, wanted, <<>>)]
        ELSE [ret |-> "None", subset |-> <<>>]

\* C14: two runs on the same (target, entries) end the same way under any
\* two schedules of the sweep tasks: every run's verdict and subset are the
\* ones RefResult computes from (target, entries) alone.
C14_SameResultUnderAnySchedule ==
    Terminated => [ret |-> ret, subset |-> subset] = RefResult(target)

\* a run over three or more entries of both signs, whose sweeps ran in some
\* order, returned a subset of two or more entries
C14_Witness ==
    /\ Returned /\ ret = "Some" /\ total >= 3
    /\ Negatives # {} /\ Positives # {}
    /\ Len(subset) >= 2
    /\ [ret |-> ret, subset |-> subset] = RefResult(target)

\* C17: with a progress sink, the engine stores i before it writes any bit
\* of row i, for i = 0, 1, ..., n - 1 in that order: whenever a row changes
\* the counter holds that row's index, and the counter only ever steps from
\* i - 1 to i, so its values never decrease.
C17_ProgressBeforeRow ==
    [][/\ progress' >= progress
       /\ progress' # progress =>
            /\ sink
            /\ progress' = progress + 1
            /\ progress' = i
            /\ count_ones(Row(i)) = 0
       /\ (sink /\ pc # "start") =>
            \A k \in 0 .. (total - 1) :
                dp_table'[k + 1] # dp_table[k + 1] => progress = k
      ]_vars

\* with a sink, the shift sweep of the last of three or more rows is under
\* way and has written a bit, and the counter is at that row
C17_Witness ==
    /\ sink /\ total >= 3
    /\ pc = "shift" /\ i = total - 1
    /\ todo # 0 .. (sum_size - 1)
    /\ progress = total - 1
    /\ count_ones(Row(i)) >= 2

\* C18: when the computation of most_negative, most_positive or sum_size
\* overflows (the negation of the minimum i64 included), the run ends in a
\* fatal error before any row is built: past line 26 it has panicked and
\* there is no table, so no wrapped value is ever used.
C18_OverflowIsFatal ==
    (SetupOverflows(entries) /\ pc # "start") =>
        (pc = "panicked" /\ dp_table = <<>>)

\* every sweep task of row k has run: the row holds all its sums
RowComplete(k) ==
    \A b \in 0 .. (sum_size - 1) :
        get(Row(k), b) <=> (b - zero_index) \in SubsetSums(k + 1)

\* C19: while a sweep of row i runs, every sweep task of row i - 1 has
\* completed (that row holds all its sums) and no task of a later row has
\* started (those rows are all false); the outer loop takes the rows one at
\* a time, advancing by one only when the last task of the shift sweep has
\* run.
C19_RowsInSequence ==
    /\ [](pc \in {"carry", "shift"} =>
            /\ i >= 1
            /\ RowComplete(i - 1)
            /\ \A m \in (i + 1) .. (total - 1) : count_ones(Row(m)) = 0)
    /\ [][i' # i =>
            /\ i' = i + 1
            /\ pc' = "loop"
            /\ pc = "shift" => (todo' = {} /\ Cardinality(todo) = 1)
            /\ pc \in {"base", "shift"}
         ]_vars

\* the shift sweep of the third row is part done, after a second row whose
\* sweeps set three or more bits
C19_Witness ==
    /\ pc = "shift" /\ i = 2 /\ total >= 3
    /\ todo # {} /\ todo # 0 .. (sum_size - 1)
    /\ count_ones(Row(1)) >= 3
    /\ RowComplete(1)

\* C20: once the table is allocated, no step of the engine turns a bit of
\* any row from true to false or changes a row's length; a step that changes
\* row k is a step of outer iteration k (the base bits or a sweep task), and
\* the loop index never goes back: so during iteration i the other rows are
\* unchanged, and a row is never written after the loop has passed it, the
\* completion check and the reconstruction included.
C20_OnlySetOnCurrentRow ==
    [][pc # "start" =>
          /\ i' >= i
          /\ \A k \in 0 .. (total - 1) :
                /\ block_cnt(dp_table'[k + 1]) = block_cnt(Row(k))
                /\ \A w \in 1 .. block_cnt(Row(k)) :
                       Row(k)[w] \subseteq dp_table'[k + 1][w]
                /\ dp_table'[k + 1] # Row(k) =>
                       (k = i /\ pc \in {"base", "carry", "shift"})
      ]_vars

\* the reconstruction is walking back over three or more rows that each
\* hold two or more bits
C20_Witness ==
    /\ pc = "backtrack" /\ total >= 3
    /\ current_i < total - 1
    /\ \A k \in 0 .. (total - 1) : count_ones(Row(k)) >= 2

\* C21: for every i > 0, whichever way the carry and shift tasks of row i
\* were ordered or interleaved (the code's two sweeps in turn, or both in one
\* pool), the finished row i is the same: the row of all the sums of
\* entries[0..=i], which no schedule enters into.
C21_RowSameUnderAnyInterleaving ==
    pc # "start" => \A k \in 1 .. (i - 1) : RowComplete(k)

\* the tasks of a row are running from the pool, interleaved: a shift task
\* has run while a carry task has not, and a carry task has run while a
\* shift task has not
C21_Witness ==
    /\ pc = "sweeps" /\ i >= 1
    /\ \E a, b \in SweepPool \ todo : a.sweep = "carry" /\ b.sweep = "shift"
    /\ \E a, b \in todo : a.sweep = "carry" /\ b.sweep = "shift"
    /\ count_ones(Row(i)) >= 2

\* C22: for every finished row k > 0, the bits set within [0, sum_size) are
\* exactly zero_index, every j set in row k - 1, and every j for which
\* j - entries[k] is in [0, sum_size) and set in row k - 1; so row k - 1 is
\* a subset of row k, and zero_index is set in every finished row.
C22_RowRecurrence ==
    pc # "start" =>
        /\ \A k \in 0 .. (i - 1) : get(Row(k), zero_index)
        /\ \A k \in 1 .. (i - 1) :
              /\ \A j \in 0 .. (sum_size - 1) :
                    get(Row(k), j) <=>
                        \/ j = zero_index
                        \/ get(Row(k - 1), j)
                        \/ /\ (j - Entry(k)) \in 0 .. (sum_size - 1)
                           /\ get(Row(k - 1), j - Entry(k))
              /\ \A w \in 1 .. block_cnt(Row(k)) : Row(k - 1)[w] \subseteq Row(k)[w]

\* three rows are finished, for a negative entry after a positive one: the
\* third row holds bits shifted down from the second
C22_Witness ==
    /\ pc = "loop" /\ i = total /\ total = 3
    /\ Entry(1) > 0 /\ Entry(2) < 0
    /\ \E j \in 0 .. (sum_size - 1) :
          /\ get(Row(2), j) /\ ~get(Row(1), j)
          /\ get(Row(1), j - Entry(2))

\* the indices of the bits set in row k, padding included
RowBits(k) ==
    UNION {{(w - 1) * WordBits + o : o \in Row(k)[w]} :
              w \in 1 .. block_cnt(Row(k))}

\* C23: once row 0 is built, its set bits are exactly zero_index and
\* zero_index + entries[0] (one bit when entries[0] = 0), and that second
\* index is in [0, sum_size).
C23_FirstRowTwoBits ==
    (pc # "start" /\ i >= 1) =>
        /\ RowBits(0) = {zero_index, zero_index + Entry(0)}
        /\ (zero_index + Entry(0)) \in 0 .. (sum_size - 1)

\* the first row of a table is built for a negative first entry, and holds
\* two bits, the second below zero_index
C23_Witness ==
    /\ pc = "loop" /\ i = 1 /\ total >= 2
    /\ Entry(0) < 0
    /\ count_ones(Row(0)) = 2
    /\ get(Row(0), zero_index + Entry(0))

\* C24: a reconstruction step at index current_i appends entries[current_i]
\* iff current_i = 0 or bit current_sum of row current_i - 1 is false, and
\* then takes the entry off current_sum (in usize arithmetic); otherwise it
\* leaves both alone.  So when current_i > 0 and current_sum can be made
\* both without the entry and with it, the entry is left out.
C24_NecessityRule ==
    [][pc = "backtrack" =>
          LET at == current_i
              necessary == at = 0 \/ ~get(Row(at - 1), current_sum)
              without == current_sum - Entry(at)
          IN  /\ subset' = IF necessary THEN Append(subset, Entry(at))
                            ELSE subset
              /\ current_sum' = IF necessary THEN without % UsizeModulus
                                 ELSE current_sum
              /\ (/\ at > 0
                  /\ get(Row(at - 1), current_sum)
                  /\ without \in 0 .. (sum_size - 1)
                  /\ get(Row(at - 1), without))
                 => subset' = subset
      ]_vars

\* the target is the last of three or more entries, and can be made without
\* it: the walk left out every entry but the first
C24_Witness ==
    /\ Returned /\ ret = "Some" /\ total >= 3
    /\ target # 0
    /\ Entry(total - 1) = target
    /\ current_i = 0
    /\ subset = <<Entry(0)>>

\* C25: the reconstruction stops as soon as current_sum = zero_index: from a
\* point of the walk where they are equal (the start of the walk for target
\* 0 included) no entry is appended and current_sum stays, and the walk is
\* over after that step.
C25_StopsAtZeroIndex ==
    [][(pc = "backtrack" /\ current_sum = zero_index) =>
          /\ subset' = subset
          /\ current_sum' = current_sum
          /\ pc' = "done"
      ]_vars

\* C26: sum_size and zero_index do not change once the table is allocated,
\* and every bit index the engine passes to a row is in [0, sum_size): the
\* base bits, the sweeps' indices, the completion check's index for whatever
\* target, and the reconstruction's current_sum.
C26_IndicesInRange ==
    [][pc # "start" =>
          /\ sum_size' = sum_size
          /\ zero_index' = zero_index
          /\ pc = "base" =>
                /\ zero_index \in 0 .. (sum_size - 1)
                /\ i = 0 =>
                      AsUsize(zero_index + Entry(0)) \in 0 .. (sum_size - 1)
          /\ pc \in {"carry", "shift"} => todo \subseteq 0 .. (sum_size - 1)
          /\ (pc = "loop" /\ i = total /\ total > 0) =>
                AsUsize(target' + zero_index) \in 0 .. (sum_size - 1)
          /\ (pc = "backtrack" /\ current_i > 0) =>
                current_sum \in 0 .. (sum_size - 1)
      ]_vars

\* C27: the table and the result do not depend on the progress sink: with
\* a sink or without one, the table as the loop leaves it holds in row k
\* exactly the sums of entries[0..=k], and the run ends as RefResult computes
\* from (target, entries) alone.
C27_SinkHasNoEffect ==
    /\ (pc = "loop" /\ i = total) =>
          \A k \in 0 .. (total - 1) :
              RowBits(k) = {b \in 0 .. (RefSize - 1) : RefBit(k, b)}
    /\ Terminated => [ret |-> ret, subset |-> subset] = RefResult(target)

\* a run with a sink, whose counter reached the last of three or more rows,
\* returned a subset
C27_Witness ==
    /\ sink /\ progress = total - 1 /\ total >= 3
    /\ Returned /\ ret = "Some" /\ subset # <<>>

\* a run over the same kind of input without a sink, its counter untouched,
\* returned a subset
C27_WitnessNoSink ==
    /\ ~sink /\ progress = 0 /\ total >= 3
    /\ Returned /\ ret = "Some" /\ subset # <<>>

\* C28: with nobody mutating the vector, every call of next or next_back
\* made while fewer than len() values have been yielded returns Some:
\* the k-th value from next is get(k), the k-th value from next_back is
\* get(len() - 1 - k), whatever the order of the calls; once len()
\* values have been yielded, every call, from either end, returns None.
\* So each index is yielded exactly once and the traversal is finite.
C28_EachIndexYieldedOnce ==
    [][(it.live /\ ivars' # ivars) =>
          IF taken.front + taken.back < len(data)
          THEN /\ last_yield'.some
               /\ ~last_yield'.panicked
               /\ IF last_yield'.op = "next"
                  THEN /\ last_yield'.value = get(data, taken.front)
                       /\ taken' = [taken EXCEPT !.front = taken.front + 1]
                  ELSE /\ last_yield'.value =
                              get(data, len(data) - 1 - taken.back)
                       /\ taken' = [taken EXCEPT !.back = taken.back + 1]
          ELSE /\ last_yield' = YieldNone(last_yield'.op)
               /\ taken' = taken]_vars

\* a vector of more than one block has been traversed from both ends
\* and the iterator has reported exhaustion
C28_Witness ==
    /\ it.live
    /\ len(data) > WordBits
    /\ taken.front > WordBits
    /\ taken.back > 0
    /\ taken.front + taken.back = len(data)
    /\ last_yield = YieldNone("next_back")


\* C29: when a front end has called the engine, the entry list it passed
\* is not empty and the target it passed was parsed from what was typed.
C29_ValidatedBeforeInvoke ==
    /\ cli.stage = "running" => entries # <<>>
    /\ ui.stage = "calculating" =>
           /\ entries # <<>>
           /\ entries = number_set(ui.numbers_input).value
           /\ ParseI64(ui.target_input) = [ok |-> TRUE, value |-> ui.target]


\* C30: once the completion check has found the target reachable, every
\* backtracking step at index current_i starts with current_sum inside
\* [0, sum_size) and with bit current_sum of row current_i set.
C30_WalkStaysOnSetBits ==
    pc = "backtrack" =>
        /\ current_sum \in 0 .. (sum_size - 1)
        /\ get(Row(current_i), current_sum)

\* the walk has taken an entry and moved down a row, and is not finished
C30_Witness ==
    /\ pc = "backtrack"
    /\ total >= 3
    /\ current_i < total - 1
    /\ subset # <<>>
    /\ current_sum # zero_index


C32_PollingReachesDone ==
    \A r \in 1 .. MaxRuns : (runs = r) ~> (runs # r \/ done_polls >= 1)


\* C33: every InProgress reply carries the counter and the out_of of the
\* most recently started run, and every Done reply carries the answer
\* that run's worker sent; an earlier run's answer is never delivered.
\* A worker whose send fails ends normally, and its failed send changes
\* nothing of any other run, of GLOBAL, or of the replies.
C33_RepliesBelongToLatestRun ==
    [][LET latest == Len(jobs)
       IN  /\ (reply' # reply /\ reply'.kind = "InProgress") =>
                  /\ reply'.run = latest
                  /\ reply'.progress = jobs[latest].counter
                  /\ reply'.out_of = jobs[latest].out_of
           /\ (reply' # reply /\ reply'.kind = "Done") =>
                  /\ reply'.run = latest
                  /\ reply'.answer = jobs[latest].answer
                  /\ jobs[latest].send = "ok"
           /\ \A r \in 1 .. latest :
                  (jobs[r].send = "none" /\ jobs'[r].send = "err") =>
                      /\ r < latest
                      /\ jobs'[r].stage = "ended"
                      /\ \A q \in (1 .. latest) \ {r} : jobs'[q] = jobs[q]
                      /\ glob' = glob
                      /\ reply' = reply]_vars

\* the first run was replaced while in progress; its worker's send
\* failed, and a poll has delivered the second run's answer
C33_Witness ==
    /\ Len(jobs) = 2
    /\ jobs[1].out_of # jobs[2].out_of
    /\ jobs[1].send = "err"
    /\ jobs[1].answer # jobs[2].answer
    /\ reply.kind = "Done"
    /\ reply.run = 2


\* C35: whatever next, next_back and advance_by calls have been made, the
\* cursors satisfy idx <= back_idx <= len(), size_hint returns
\* back_idx - idx and does not underflow, and advance_by does not panic.
C35_CursorsStayOrdered ==
    it.live =>
        /\ it.idx <= it.back_idx
        /\ it.back_idx <= len(data)
        /\ last_yield.op = "size_hint" =>
               /\ ~last_yield.panicked
               /\ last_yield.n = it.back_idx - it.idx
        /\ last_yield.op = "advance_by" => ~last_yield.panicked


\* C36: after the same resize_bits_with and set calls the two crates'
\* vectors agree on every get and on count_ones, and once both iterators
\* have returned None they have yielded the same sequence of bits, which
\* has 64 x (block count) elements in both.
C36_RootAgreesWithVendored ==
    /\ seqs.panicked \in {{}, {"vendored", "root"}}
    /\ Len(root.data) = block_cnt(data)
    /\ \A idx \in 0 .. (len(data) - 1) :
           root_get(root.data, idx) = get(data, idx)
    /\ root_count_ones(root.data) = count_ones(data)
    /\ (seqs.vendored_done /\ seqs.root_done) =>
           /\ seqs.root = seqs.vendored
           /\ Len(seqs.vendored) = WordBits * block_cnt(data)
           /\ Len(seqs.root) = WordBits * Len(root.data)


---------------------------------------------------------------------------
(* Properties of the shared bit vector, checked under SpecBitVec *)

\* the threads that have performed their operation
Acted == {t \in Threads : thr[t].op # "idle"}

\* C8: after k threads have each set a distinct bit of an all-false bit
\* vector to true, in any order and also within one word, count_ones is k.
C8_NoLostUpdate ==
    (/\ fresh
     /\ \A t \in Acted :
           /\ thr[t].op = "set" /\ thr[t].val /\ ~thr[t].panicked
           /\ \A u \in Acted \ {t} : thr[u].idx # thr[t].idx)
    => count_ones(data) = Cardinality(Acted)

\* every thread has set a bit of its own, two of them in the same word
C8_Witness ==
    /\ fresh
    /\ Acted = Threads
    /\ \A t \in Threads :
          /\ thr[t].op = "set" /\ thr[t].val /\ ~thr[t].panicked
          /\ \A u \in Threads \ {t} : thr[u].idx # thr[t].idx
    /\ \E t, u \in Threads :
          /\ t # u
          /\ loc_and_mask(thr[t].idx).block = loc_and_mask(thr[u].idx).block
    /\ count_ones(data) = NumThreads

\* C9: set(i, v) on an index in bounds returns the bit's value just before
\* it and leaves the bit at v; a bit changes only by a set on its index (bit
\* k of block b is index 64 * b + k), and get(i) returns the bit: so a get
\* after set(i, v), with no set on i in between, returns v.
C9_SetThenGet ==
    [][/\ \A t \in Threads :
            (thr[t].op = "idle" /\ thr'[t].op # "idle" /\ ~thr'[t].panicked)
            => /\ thr'[t].op = "set" =>
                    /\ thr'[t].ret = get(data, thr'[t].idx)
                    /\ get(data', thr'[t].idx) = thr'[t].val
               /\ thr'[t].op = "get" =>
                    thr'[t].ret = get(data, thr'[t].idx)
       /\ len(data') = len(data)
       /\ \A b \in 1 .. block_cnt(data) :
            \A k \in (data[b] \ data'[b]) \cup (data'[b] \ data[b]) :
                \E t \in Threads :
                    /\ thr[t].op = "idle"
                    /\ thr'[t].op = "set"
                    /\ thr'[t].idx = (b - 1) * WordBits + k
      ]_vars

\* one thread set a false bit to true and was told false; another thread's
\* get of that bit returned true
C9_Witness ==
    \E t, u \in Threads :
        /\ thr[t].op = "set" /\ thr[t].val /\ ~thr[t].ret /\ ~thr[t].panicked
        /\ thr[u].op = "get" /\ thr[u].idx = thr[t].idx /\ thr[u].ret

C34_OnlyTheBitSet ==
    [][\A t \in Threads :
          (thr'[t] # thr[t] /\ \A u \in Threads \ {t} : thr'[u] = thr[u]) =>
              IF thr'[t].op = "set" /\ ~thr'[t].panicked
              THEN LET lm == loc_and_mask(thr'[t].idx)
                   IN  /\ len(data') = len(data)
                       /\ \A b \in 1 .. block_cnt(data) :
                              IF b = lm.block + 1
                              THEN data'[b] \ lm.mask = data[b] \ lm.mask
                              ELSE data'[b] = data[b]
              ELSE data' = data
      ]_vars

\* two threads have each changed a bit of the same word, one to true and
\* one to false, and the word still holds other bits
C34_Witness ==
    \E t, u \in Threads :
        /\ thr[t].op = "set" /\ thr[t].val /\ ~thr[t].ret /\ ~thr[t].panicked
        /\ thr[u].op = "set" /\ ~thr[u].val /\ thr[u].ret /\ ~thr[u].panicked
        /\ loc_and_mask(thr[t].idx).block = loc_and_mask(thr[u].idx).block
        /\ block_cnt(data) >= 2
        /\ count_ones(data) > 1


---------------------------------------------------------------------------
(* Properties of the owner's operations, checked under SpecResize *)

\* C10: after any sequence of with_bit_capacity, with_capacity,
\* resize_bits_with and resize_blocks_with, len() is a multiple of 64, and a
\* vector made by with_bit_capacity(c) then resize_bits_with(c, f) has
\* len() >= c.
C10_LenRoundedUp ==
    /\ len(data) % WordBits = 0
    /\ (owner_op.op = "resize_bits_with" /\ owner_op.ctor = owner_op.arg)
          => len(data) >= owner_op.arg

\* C11: after resize_bits_with(n, f), len() is the smallest multiple of 64
\* that is >= n (so len() = n when n is a multiple of 64), and block_cnt()
\* is ceil(n / 64).
C11_LenIsSmallestMultiple ==
    owner_op.op = "resize_bits_with" =>
        /\ block_cnt(data) = (owner_op.arg + (WordBits - 1)) \div WordBits
        /\ len(data) = block_cnt(data) * WordBits
        /\ owner_op.arg % WordBits = 0 => len(data) = owner_op.arg

\* C13: with_bit_capacity(bits) and with_capacity(blocks) only reserve: right
\* after them block_cnt() = 0 and len() = 0.  The block count grows only in a
\* resize_bits_with / resize_blocks_with step, which keeps the words there
\* were and takes every added word from its factory.
C13_ReserveOnly ==
    [][/\ owner_op'.op \in {"with_bit_capacity", "with_capacity"} =>
            /\ block_cnt(data') = 0
            /\ len(data') = 0
       /\ block_cnt(data') > block_cnt(data) =>
            /\ owner_op'.op \in {"resize_bits_with", "resize_blocks_with"}
            /\ \A b \in 1 .. block_cnt(data) : data'[b] = data[b]
            /\ \A b \in (block_cnt(data) + 1) .. block_cnt(data') :
                   data'[b] = owner_op'.word
      ]_vars

\* a vector made by with_bit_capacity with room for two blocks was resized
\* twice: first with a factory of zero words, then further with a factory of
\* all-ones words
C13_Witness ==
    /\ owner_op.op = "resize_bits_with"
    /\ owner_op.ctor > WordBits
    /\ cap = 2
    /\ data = <<{}, AllBits>>

---------------------------------------------------------------------------
(* Properties of the tauri commands, checked under SpecChannel *)

\* C15: for one started run, a check_algorithm poll returns InProgress, with
\* out_of the number of entries and a progress no smaller than the poll
\* before it, as long as the worker has not sent the result; the first poll
\* after the send returns Done(result) and sets GLOBAL to None; every poll
\* after that one returns NoAlgorithmRunning, until a new run is started.
C15_PollProtocol ==
    [][(runs >= 1 /\ runs' = runs /\ last_poll' # last_poll) =>
          IF done_polls >= 1
          THEN /\ last_poll'.kind = "NoAlgorithmRunning"
               /\ done_polls' = done_polls
               /\ ~global'.some
          ELSE IF sends >= 1
          THEN /\ last_poll'.kind = "Done"
               /\ last_poll'.output = [ret |-> ret, subset |-> subset]
               /\ done_polls' = 1
               /\ ~global'.some
          ELSE /\ last_poll'.kind = "InProgress"
               /\ last_poll'.out_of = total
               /\ last_poll.kind = "InProgress" =>
                      last_poll'.progress >= last_poll.progress
               /\ done_polls' = 0
               /\ global'.some
      ]_vars

\* a run over two entries returned a subset; one poll returned Done and the
\* poll after it NoAlgorithmRunning
C15_Witness ==
    /\ runs = 1
    /\ total >= 2
    /\ ret = "Some" /\ Len(subset) >= 1
    /\ done_polls = 1
    /\ last_poll.kind = "NoAlgorithmRunning"

\* C16: for every run started through the run_algorithm command, the worker
\* sends the engine's answer exactly once: never twice, and (the worker
\* being scheduled) once unless a newer run has replaced this one; and the
\* progress counter is not stored to after the send.
C16_TerminalSignalOnce ==
    /\ [](sends <= 1)
    /\ [][(sends >= 1 /\ runs' = runs) => progress' = progress]_vars
    /\ \A r \in 1 .. MaxRuns : (runs = r) ~> (runs # r \/ sends = 1)

\* the two safety parts of C16 alone: at most one send, no store after it
C16_AtMostOnceAndNoStoreAfter ==
    /\ [](sends <= 1)
    /\ [][(sends >= 1 /\ runs' = runs) => progress' = progress]_vars

=============================================================================
